---- MODULE Spec2Model ----
(***************************************************************************)
(* Neuro-Fabric: the staged documentation pipeline (agents/supervisor.py), *)
(* its four stage agents, the chat graph, and the schema fingerprint cache *)
(* (agents/schema_agent.py, agents/export_agent.py).                       *)
(*                                                                         *)
(* A LangGraph run is modelled as a program counter `pc` over the graph's  *)
(* nodes plus the AgentState channels.  Channels without a reducer         *)
(* (schema, quality_report, documentation, artifacts, current_task,        *)
(* errors) are last-value channels: a key present in a node's patch        *)
(* overwrites the channel, an absent key leaves it alone.                  *)
(***************************************************************************)
EXTENDS Integers, Sequences, FiniteSets, TLC

\* ------------------------------------------------------------------------
\* Bounds of the model
\* ------------------------------------------------------------------------
MaxCols == 2
MaxRowCount == 1
MaxErrors == 3
MaxFaults == 2
MaxCalls == 2
MaxParts == 4
MaxCorrCols == 3
MaxCopies == 2
ManyRows == 30001
MaxDigitCount == 1
MaxStatRows == 3
MaxStatCols == 2
MaxVals == 4
MaxNulls == 1
\* Connection and Inspector objects taken from one engine
MaxHandles == 3
\* underlying connections one engine opens
MaxOpened == 2

\* ------------------------------------------------------------------------
\* Program constants
\* ------------------------------------------------------------------------
\* ai_doc_agent._batch_tables(schema, quality, batch_size=10)
BatchSize == 10

\* ------------------------------------------------------------------------
\* JSON values: an ordered dict is its key insertion order plus its mapping
\* ------------------------------------------------------------------------
Range(s) == {s[i] : i \in 1..Len(s)}

Min(a, b) == IF a <= b THEN a ELSE b

\* every dict key of the model, in the lexicographic order of Python strings
KeyNames ==
  <<"columns", "row_count",
    "t01", "t02", "t03", "t04", "t05", "t06", "t07", "t08", "t09", "t10",
    "t11", "t12">>

TableNames == SubSeq(KeyNames, 3, Len(KeyNames))

ColNames == <<"id", "name", "email", "phone">>

\* key orders of a TableSchema dict as the extractor's JSON may list them
FieldOrders == {<<"columns", "row_count">>, <<"row_count", "columns">>}

ColLists == {SubSeq(ColNames, 1, n) : n \in 1..Min(MaxCols, Len(ColNames))}

RowCounts == 0..MaxRowCount

TableSchema == [order : FieldOrders, columns : ColLists, row_count : RowCounts]

EmptySchema == [order |-> <<>>, tab |-> <<>>]

UniformSchema(o, t) == [order |-> o, tab |-> [k \in Range(o) |-> t]]

\* two tables, in either key order: one batch for the documentation agent
ShortOrders == {<<"t01", "t02">>, <<"t02", "t01">>}

\* one table more than a batch holds: two batches
LongOrder == SubSeq(TableNames, 1, BatchSize + 1)

BaseTable == [order |-> <<"columns", "row_count">>, columns |-> <<"id">>, row_count |-> 0]

ShortSchema == UniformSchema(<<"t01", "t02">>, BaseTable)

LongSchema == UniformSchema(LongOrder, BaseTable)

\* what json.loads can return for the schema agent's final message
ExtractedSchemas ==
  {EmptySchema, LongSchema}
    \cup {UniformSchema(o, t) : o \in ShortOrders, t \in TableSchema}

IsEmpty(d) == Len(d.order) = 0

\* ------------------------------------------------------------------------
\* json.dumps / json.loads
\* ------------------------------------------------------------------------
\* sorted(keys): the keys of S in lexicographic order
SortedSeq(S) == LET member(k) == k \in S IN SelectSeq(KeyNames, member)

RECURSIVE Join(_, _)
Join(parts, i) ==
  IF i > Len(parts) THEN ""
  ELSE IF i = Len(parts) THEN parts[i]
  ELSE parts[i] \o ", " \o Join(parts, i + 1)

Quote(s) == "\"" \o s \o "\""

dumps_list(l) == "[" \o Join([i \in 1..Len(l) |-> Quote(l[i])], 1) \o "]"

KeyOrder(order, sort_keys) == IF sort_keys THEN SortedSeq(Range(order)) ELSE order

dumps_table(t, sort_keys) ==
  LET ks == KeyOrder(t.order, sort_keys)
      field(k) == IF k = "columns" THEN dumps_list(t.columns) ELSE ToString(t.row_count)
  IN "{" \o Join([i \in 1..Len(ks) |-> Quote(ks[i]) \o ": " \o field(ks[i])], 1) \o "}"

\* json.dumps(schema, sort_keys=...): the text, without indentation
json_dumps(schema, sort_keys) ==
  LET ks == KeyOrder(schema.order, sort_keys)
  IN "{" \o Join([i \in 1..Len(ks) |->
                    Quote(ks[i]) \o ": " \o dumps_table(schema.tab[ks[i]], sort_keys)], 1)
         \o "}"

\* the text json.dumps writes for each schema the extractor can return
SnapshotText == [s \in ExtractedSchemas |-> json_dumps(s, FALSE)]

\* json.loads(text): the value whose serialisation is the text, if any
json_loads(text) ==
  LET parsed == {s \in ExtractedSchemas : SnapshotText[s] = text}
  IN IF parsed # {}
     THEN [ok |-> TRUE, value |-> CHOOSE s \in parsed : TRUE]
     ELSE [ok |-> FALSE, value |-> EmptySchema]

_schema_hash_unsorted(schema) == json_dumps(schema, FALSE)

_schema_hash_columns(schema) ==
  json_dumps([schema EXCEPT !.tab = [k \in DOMAIN schema.tab |->
                                      [schema.tab[k] EXCEPT !.row_count = 0]]], TRUE)

\* hashlib.md5(json.dumps(schema, sort_keys=True, default=str)).hexdigest():
\* the digest is represented by the text it digests (no collisions within
\* the bounded set of schemas)
_schema_hash(schema) == json_dumps(schema, TRUE)

\* ------------------------------------------------------------------------
\* State
\* ------------------------------------------------------------------------
VARIABLES
  graph,           \* which compiled graph runs: "pipeline" or "chat"
  schema_only,     \* main.run_pipeline(schema_only=...)
  cache0,          \* history: SCHEMA_CACHE_FILE when the run started
  pc,              \* the node about to execute, or how the run ended
  messages,        \* AgentState.messages (number of messages)
  schema,          \* AgentState.schema
  quality_report,  \* AgentState.quality_report (its keys)
  documentation,   \* AgentState.documentation (its keys)
  artifacts,       \* AgentState.artifacts
  current_task,    \* AgentState.current_task
  errors,          \* AgentState.errors
  cache,           \* SCHEMA_CACHE_FILE on disk
  input,           \* history: the state the run was started with
  ran,             \* history: the nodes that have executed in this run
  first,           \* history: the first node that executed
  fresh,           \* history: the schema parsed by the last extraction
  extraction,      \* history: outcome of the last extraction
  cache_write,     \* history: outcome of the last cache write
  orig,            \* fingerprint check: a schema map
  cur,             \* fingerprint check: a schema map derived from orig
  rel              \* fingerprint check: how cur was derived from orig

\* schema discovery: server.get_schema and the schema tools
VARIABLES
  current_engine,  \* server._current_engine: "none", "duckdb" or "sqlalchemy"
  pipeline_schema, \* server.pipeline_state["schema"]
  pipeline_documentation, \* server.pipeline_state["documentation"]
  docs_request,    \* the arguments of generate_docs and the queries that fail in it
  scan,            \* history: inspector, table and failing queries of the last call
  called,          \* history: the operation that produced `response`
  response         \* what the last discovery operation returned

disc_vars == <<current_engine, pipeline_schema, pipeline_documentation, docs_request,
               scan, called, response>>

\* engine construction: core/db_connectors.get_engine
VARIABLES
  DATABASE_URL,         \* core.config.DATABASE_URL, read from the environment
  _duckdb_engine_cache, \* the module-level cached engine: 0 is None
  engines,              \* every engine object constructed so far
  calls,                \* history: the get_engine calls made so far
  _conn,                \* DuckDBEngine._conn of one engine: 0 is None
  opened,               \* how many underlying connections duckdb.connect has opened
  closed,               \* the underlying connections that have been closed
  handles,              \* the Connection and Inspector objects handed out
  lifecycle_op          \* history: the last call on the engine or on a handle

engine_vars == <<DATABASE_URL, _duckdb_engine_cache, engines, calls,
                 _conn, opened, closed, handles, lifecycle_op>>

\* the query surface: tools.sql_tools.execute_query and POST /api/query
VARIABLES
  query,     \* history: the surface called last and the SQL text it was given
  executed,  \* the SQL text the last call handed to conn.execute, <<>> if none
  reply      \* what the last call returned

sql_vars == <<query, executed, reply>>

\* the quality tools of tools/quality_tools.py
VARIABLES
  corr_input,     \* compute_correlation_matrix: the column list and the table's CORR values
  corr_result,    \* compute_correlation_matrix: its answer
  pk_table,       \* check_pk_uniqueness: the rows of the table, by key tuple
  pk_result,      \* check_pk_uniqueness: its answer
  digit_counts,   \* benford_law_analysis: values of the column per leading digit
  benford_result, \* benford_law_analysis: its answer
  stat_input,     \* the null-rate and outlier tools: the tool called and the data it reads
  stat_result     \* the null-rate and outlier tools: the answer, with the queries issued

quality_vars == <<corr_input, corr_result, pk_table, pk_result, digit_counts, benford_result,
                  stat_input, stat_result>>

tool_vars == <<disc_vars, engine_vars, sql_vars, quality_vars>>

graph_vars == <<graph, schema_only, cache0, pc, messages, schema, quality_report,
                documentation, artifacts, current_task, errors, cache, input, ran,
                first, fresh, extraction, cache_write, orig, cur, rel>>


state_vars == <<messages, schema, quality_report, documentation, artifacts,
                current_task, errors>>

hist_vars == <<input, ran, first, fresh, extraction, cache_write>>

hash_vars == <<orig, cur, rel>>

vars == <<graph, schema_only, cache0, pc, messages, schema, quality_report,
          documentation, artifacts, current_task, errors, cache, input, ran,
          first, fresh, extraction, cache_write, orig, cur, rel, tool_vars>>

\* the AgentState a node receives
AgentState ==
  [messages |-> messages, schema |-> schema, quality_report |-> quality_report,
   documentation |-> documentation, artifacts |-> artifacts,
   current_task |-> current_task, errors |-> errors]

\* exceptions of the LLM calls and of the file writes
Excs == {"timeout", "bad json"}

IOExc == "disk full"

Stages == {"schema_agent", "quality_agent", "ai_doc_agent", "export_agent"}

AbsentCache == [exists |-> FALSE, text |-> ""]

\* an absent file, an unreadable file, or a snapshot written by an earlier run
CacheFiles ==
  {AbsentCache, [exists |-> TRUE, text |-> "{"], [exists |-> TRUE, text |-> "{}"]}
    \cup {[exists |-> TRUE, text |-> json_dumps(UniformSchema(o, t), FALSE)] :
             o \in ShortOrders, t \in {u \in TableSchema : u.columns = <<"id">>}}

\* ------------------------------------------------------------------------
\* agents/supervisor.py
\* ------------------------------------------------------------------------
_pipeline_router_errors(state) ==
  IF state.current_task = "chat" THEN "chat_agent"
  ELSE IF IsEmpty(state.schema) THEN "schema_agent"
  ELSE IF state.quality_report = {} THEN "quality_agent"
  ELSE IF state.documentation = {} THEN "ai_doc_agent"
  ELSE IF state.artifacts = <<>> \/ state.errors # <<>> THEN "export_agent"
  ELSE "__end__"

_pipeline_router_skip(state) ==
  IF state.current_task = "chat" THEN "chat_agent"
  ELSE IF IsEmpty(state.schema) THEN "schema_agent"
  ELSE IF state.documentation = {} THEN "ai_doc_agent"
  ELSE IF state.quality_report = {} THEN "quality_agent"
  ELSE IF state.artifacts = <<>> THEN "export_agent"
  ELSE "__end__"

_pipeline_router_nochat(state) ==
  IF IsEmpty(state.schema) THEN "schema_agent"
  ELSE IF state.quality_report = {} THEN "quality_agent"
  ELSE IF state.documentation = {} THEN "ai_doc_agent"
  ELSE IF state.artifacts = <<>> THEN "export_agent"
  ELSE "__end__"

_pipeline_router_quality_first(state) ==
  IF state.current_task = "chat" THEN "chat_agent"
  ELSE IF state.quality_report = {} THEN "quality_agent"
  ELSE IF IsEmpty(state.schema) THEN "schema_agent"
  ELSE IF state.documentation = {} THEN "ai_doc_agent"
  ELSE IF state.artifacts = <<>> THEN "export_agent"
  ELSE "__end__"

_pipeline_router_retry(state) ==
  IF state.current_task = "chat" THEN "chat_agent"
  ELSE IF IsEmpty(state.schema) \/ state.errors # <<>> THEN "schema_agent"
  ELSE IF state.quality_report = {} THEN "quality_agent"
  ELSE IF state.documentation = {} THEN "ai_doc_agent"
  ELSE IF state.artifacts = <<>> THEN "export_agent"
  ELSE "__end__"

_pipeline_router(state) ==
  IF state.current_task = "chat" THEN "chat_agent"
  ELSE IF IsEmpty(state.schema) THEN "schema_agent"
  ELSE IF state.quality_report = {} THEN "quality_agent"
  ELSE IF state.documentation = {} THEN "ai_doc_agent"
  ELSE IF state.artifacts = <<>> THEN "export_agent"
  ELSE "__end__"

\* what the LLM may answer the supervisor with: one of the six strings it
\* is asked for, or any other text, the graph's own task names included
Decisions ==
  {"schema_agent", "quality_agent", "ai_doc_agent", "export_agent",
   "chat_agent", "FINISH", "unrecognised", "done", "pipeline"}

chat_supervisor_router_to_schema(state) ==
  LET task == state.current_task
  IN IF task \in Stages \cup {"chat_agent"} THEN task
     ELSE IF task = "done" THEN "__end__"
     ELSE IF task = "chat" THEN "chat_agent"
     ELSE "schema_agent"

chat_supervisor_router(state) ==
  LET task == state.current_task
  IN IF task \in Stages \cup {"chat_agent"} THEN task
     ELSE IF task = "done" THEN "__end__"
     ELSE IF task = "chat" THEN "chat_agent"
     ELSE IF task = "pipeline" THEN "schema_agent"
     ELSE "chat_agent"

\* the channels after a node's patch has been applied
Commit(st) ==
  /\ messages' = st.messages
  /\ schema' = st.schema
  /\ quality_report' = st.quality_report
  /\ documentation' = st.documentation
  /\ artifacts' = st.artifacts
  /\ current_task' = st.current_task
  /\ errors' = st.errors

Record(node) ==
  /\ ran' = ran \cup {node}
  /\ first' = IF first = "none" THEN node ELSE first
  /\ input' = input

\* the edge leaving a specialist node: build_pipeline_graph loops back to
\* the router (and main.run_pipeline stops consuming the stream once the
\* schema is there in schema-only mode); build_chat_graph goes to the chat
\* agent
AfterSpecialist(st) ==
  pc' = IF graph = "pipeline"
        THEN IF schema_only /\ ~IsEmpty(st.schema) THEN "stopped"
             ELSE _pipeline_router(st)
        ELSE "chat_agent"

\* START: the pipeline graph enters through the router, the chat graph
\* through the supervisor
Start ==
  /\ pc = "__start__"
  /\ pc' = IF graph = "pipeline" THEN _pipeline_router(AgentState) ELSE "supervisor"
  /\ UNCHANGED <<graph, schema_only, cache0, state_vars, cache, hist_vars, hash_vars, tool_vars>>

supervisor_node ==
  /\ pc = "supervisor"
  /\ Record("supervisor")
  /\ \/ /\ current_task = "pipeline"
        /\ Commit(AgentState)
        /\ pc' = chat_supervisor_router(AgentState)
     \/ /\ current_task # "pipeline"
        /\ \E decision \in Decisions :
             \E st \in {[AgentState EXCEPT
                          !.current_task = IF decision # "FINISH" THEN decision ELSE "done"]} :
                Commit(st) /\ pc' = chat_supervisor_router(st)
     \/ /\ current_task # "pipeline"
        /\ Commit(AgentState)
        /\ pc' = "raised"
  /\ UNCHANGED <<graph, schema_only, cache0, cache, fresh, extraction, cache_write, hash_vars, tool_vars>>

\* ------------------------------------------------------------------------
\* agents/schema_agent.py
\* ------------------------------------------------------------------------
_load_cached_schema ==
  IF cache.exists THEN json_loads(cache.text)
  ELSE [ok |-> FALSE, value |-> EmptySchema]

select_schema_fresh(cached, parsed) == parsed

\* "Incremental update: check if schema changed"
select_schema(cached, parsed) ==
  IF cached.ok /\ ~IsEmpty(cached.value)
       /\ _schema_hash(cached.value) = _schema_hash(parsed)
  THEN cached.value
  ELSE parsed

schema_agent_node ==
  /\ pc = "schema_agent"
  /\ Record("schema_agent")
  /\ \/ \E parsed \in ExtractedSchemas, cached \in {_load_cached_schema} :
          \E st \in {[AgentState EXCEPT
                        !.schema = select_schema(cached, parsed),
                        !.errors = <<>>]} :
            /\ Commit(st)
            /\ AfterSpecialist(st)
            /\ fresh' = parsed
            /\ extraction' = "ok"
     \/ \E exc \in Excs :
          \E st \in {[AgentState EXCEPT
                        !.schema = EmptySchema,
                        !.errors = <<"SchemaAgent error: " \o exc>>]} :
            /\ Commit(st)
            /\ AfterSpecialist(st)
            /\ fresh' = fresh
            /\ extraction' = "failed"
  /\ UNCHANGED <<graph, schema_only, cache0, cache, cache_write, hash_vars, tool_vars>>

\* ------------------------------------------------------------------------
\* agents/quality_agent.py
\* ------------------------------------------------------------------------
quality_agent_node ==
  /\ pc = "quality_agent"
  /\ Record("quality_agent")
  /\ \/ /\ IsEmpty(schema)
        /\ \E st \in {[AgentState EXCEPT
                        !.quality_report = {},
                        !.errors = <<"QualityAgent: no schema to analyze.">>]} :
              Commit(st) /\ AfterSpecialist(st)
     \/ /\ ~IsEmpty(schema)
        /\ \E report \in {Range(schema.order), {}} :
             \E st \in {[AgentState EXCEPT !.quality_report = report]} :
                Commit(st) /\ AfterSpecialist(st)
     \/ /\ ~IsEmpty(schema)
        /\ \E exc \in Excs :
             \E st \in {[AgentState EXCEPT
                          !.quality_report = {},
                          !.errors = <<"QualityAgent error: " \o exc>>]} :
                Commit(st) /\ AfterSpecialist(st)
  /\ UNCHANGED <<graph, schema_only, cache0, cache, fresh, extraction, cache_write, hash_vars, tool_vars>>

\* ------------------------------------------------------------------------
\* agents/ai_doc_agent.py
\* ------------------------------------------------------------------------
NumBatches(n) == (n + BatchSize - 1) \div BatchSize

\* the table names of batch i: tables[i : i + batch_size]
_batch_tables(tables, i) ==
  {tables[j] : j \in ((i - 1) * BatchSize + 1)..Min(i * BatchSize, Len(tables))}

\* the entries appended for the batches whose LLM call or parse raised
RECURSIVE BatchErrors(_, _)
BatchErrors(outcome, i) ==
  IF i > Len(outcome) THEN <<>>
  ELSE (IF outcome[i] = "fail"
        THEN <<"AIDocAgent batch " \o ToString(i) \o " error: timeout">>
        ELSE <<>>) \o BatchErrors(outcome, i + 1)

ai_doc_agent_node ==
  /\ pc = "ai_doc_agent"
  /\ Record("ai_doc_agent")
  /\ \/ /\ IsEmpty(schema)
        /\ \E st \in {[AgentState EXCEPT
                        !.documentation = {},
                        !.errors = <<"AIDocAgent: no schema to document.">>]} :
              Commit(st) /\ AfterSpecialist(st)
     \/ /\ ~IsEmpty(schema)
        /\ LET nb == NumBatches(Len(schema.order))
           IN \E outcome \in [1..nb -> {"ok", "empty", "fail"}] :
                LET all_documentation ==
                      UNION {IF outcome[i] = "ok" THEN _batch_tables(schema.order, i) ELSE {}
                               : i \in 1..nb}
                    appended == BatchErrors(outcome, 1)
                IN /\ Len(errors) + Len(appended) <= MaxErrors
                   \* errors.append on the list read from the state: the
                   \* patch carries no "errors" key, so the entries survive
                   \* only if the node was handed the channel's own list
                   /\ \E kept \in {errors \o appended, errors} :
                        \E st \in {[AgentState EXCEPT
                                     !.documentation = all_documentation,
                                     !.errors = kept]} :
                           Commit(st) /\ AfterSpecialist(st)
  /\ UNCHANGED <<graph, schema_only, cache0, cache, fresh, extraction, cache_write, hash_vars, tool_vars>>

\* ------------------------------------------------------------------------
\* agents/export_agent.py
\* ------------------------------------------------------------------------
write_cache_nothing(state) == cache

\* SCHEMA_CACHE_FILE.write_text(json.dumps(schema, indent=2, default=str))
write_cache(state) == [exists |-> TRUE, text |-> json_dumps(state.schema, FALSE)]

export_agent_node ==
  /\ pc = "export_agent"
  /\ Record("export_agent")
  /\ \E json_ok \in BOOLEAN, md_ok \in BOOLEAN :
       LET new_artifacts == (IF json_ok THEN <<"database.json">> ELSE <<>>)
                              \o (IF md_ok THEN <<"database.md">> ELSE <<>>)
           new_errors == (IF json_ok THEN <<>> ELSE <<"ExportAgent JSON error: " \o IOExc>>)
                           \o (IF md_ok THEN <<>> ELSE <<"ExportAgent Markdown error: " \o IOExc>>)
           st == [AgentState EXCEPT
                    !.artifacts = artifacts \o new_artifacts,
                    !.errors = errors \o new_errors]
       IN /\ Len(errors) + Len(new_errors) <= MaxErrors
          /\ Commit(st)
          /\ AfterSpecialist(st)
  /\ \/ /\ \E written \in {write_cache(AgentState)} : cache' = written
        /\ cache_write' = "ok"
     \/ /\ cache' \in {cache, [exists |-> TRUE, text |-> "{"]}
        /\ cache_write' = "failed"
  /\ UNCHANGED <<graph, schema_only, cache0, fresh, extraction, hash_vars, tool_vars>>

\* ------------------------------------------------------------------------
\* agents/chat_agent.py
\* ------------------------------------------------------------------------
chat_agent_node ==
  /\ pc = "chat_agent"
  /\ Record("chat_agent")
  /\ Commit([AgentState EXCEPT !.messages = messages + 1])
  /\ pc' = "__end__"
  /\ UNCHANGED <<graph, schema_only, cache0, cache, fresh, extraction, cache_write, hash_vars, tool_vars>>

\* ------------------------------------------------------------------------
\* The tools and endpoints before their first call
\* ------------------------------------------------------------------------
\* every variable of the graph runs and of the fingerprint check, at rest
GraphIdle ==
  /\ graph = "pipeline"
  /\ schema_only = FALSE
  /\ pc = "__end__"
  /\ messages = 0
  /\ schema = EmptySchema
  /\ quality_report = {}
  /\ documentation = {}
  /\ artifacts = <<>>
  /\ current_task = "pipeline"
  /\ errors = <<>>
  /\ cache = AbsentCache
  /\ cache0 = cache
  /\ input = AgentState
  /\ ran = {}
  /\ first = "none"
  /\ fresh = EmptySchema
  /\ extraction = "none"
  /\ cache_write = "none"
  /\ orig = EmptySchema
  /\ cur = EmptySchema
  /\ rel = "none"

NoResponse == [ok |-> FALSE, error |-> "", body |-> <<>>]

NoScan == [kind |-> "none", table |-> 0, faults |-> {}]

DiscoveryIdle ==
  /\ current_engine = "none"
  /\ pipeline_schema = EmptySchema
  /\ pipeline_documentation = EmptySchema
  /\ docs_request = [table |-> "none", schema |-> "", faults |-> {}]
  /\ scan = NoScan
  /\ called = "none"
  /\ response = NoResponse

EngineIdle ==
  /\ DATABASE_URL = <<>>
  /\ _duckdb_engine_cache = 0
  /\ engines = <<>>
  /\ calls = <<>>
  /\ _conn = 0
  /\ opened = 0
  /\ closed = {}
  /\ handles = <<>>
  /\ lifecycle_op = [op |-> "none", conn |-> 0, was_closed |-> FALSE]

SqlIdle ==
  /\ query = [surface |-> "none", sql |-> <<>>]
  /\ executed = <<>>
  /\ reply = [error |-> "", rows |-> 0]

NoAnswer == [ok |-> FALSE, error |-> "not called"]

\* no column list, no table and no column has been handed to a quality tool
QualityIdle ==
  /\ corr_input = [columns |-> <<>>, corr |-> <<>>]
  /\ corr_result = NoAnswer
  /\ pk_table = [bulk |-> 0, copies |-> <<>>]
  /\ pk_result = NoAnswer
  /\ digit_counts = <<>>
  /\ benford_result = NoAnswer
  /\ stat_input = [tool |-> "none"]
  /\ stat_result = NoAnswer

ToolsIdle == DiscoveryIdle /\ EngineIdle /\ SqlIdle /\ QualityIdle

\* ------------------------------------------------------------------------
\* Runs of the two graphs
\* ------------------------------------------------------------------------
Init ==
  /\ graph \in {"pipeline", "chat"}
  /\ schema_only \in BOOLEAN
  /\ pc = "__start__"
  /\ messages = (IF graph = "pipeline" THEN 0 ELSE 1)
  /\ schema \in {EmptySchema, ShortSchema, LongSchema}
  /\ quality_report \in {{}, {"t01"}}
  /\ documentation \in {{}, {"t01"}}
  /\ artifacts \in {<<>>, <<"database.json", "database.md">>}
  /\ current_task \in {"pipeline", "chat"}
  /\ errors = <<>>
  \* main.run_pipeline starts the pipeline graph on an empty state
  /\ schema_only =>
       /\ graph = "pipeline" /\ current_task = "pipeline"
       /\ IsEmpty(schema) /\ quality_report = {} /\ documentation = {}
       /\ artifacts = <<>>
  /\ cache \in CacheFiles
  /\ cache0 = cache
  /\ input = AgentState
  /\ ran = {}
  /\ first = "none"
  /\ fresh = EmptySchema
  /\ extraction = "none"
  /\ cache_write = "none"
  /\ orig = EmptySchema
  /\ cur = EmptySchema
  /\ rel = "none"
  /\ ToolsIdle

Next ==
  \/ Start
  \/ supervisor_node
  \/ schema_agent_node
  \/ quality_agent_node
  \/ ai_doc_agent_node
  \/ export_agent_node
  \/ chat_agent_node

Spec == Init /\ [][Next]_vars

\* the pipeline graph as main.run_pipeline, app.run_full_pipeline and
\* server.run_pipeline start it for a full run: a pipeline task on an empty
\* state, here before any snapshot has been cached
PipelineInit ==
  /\ Init
  /\ graph = "pipeline"
  /\ ~schema_only
  /\ cache = AbsentCache
  /\ current_task = "pipeline"
  /\ IsEmpty(schema)
  /\ quality_report = {}
  /\ documentation = {}
  /\ artifacts = <<>>

PipelineNext ==
  \/ Start
  \/ schema_agent_node
  \/ quality_agent_node
  \/ ai_doc_agent_node
  \/ export_agent_node

\* a started graph run keeps stepping until it ends
FairSpec == PipelineInit /\ [][PipelineNext]_vars /\ WF_vars(PipelineNext)

\* ------------------------------------------------------------------------
\* The fingerprint on its own: schema maps, their key permutations and
\* one added column
\* ------------------------------------------------------------------------
HashSchemas ==
  {[order |-> o, tab |-> f] : o \in ShortOrders, f \in [{"t01", "t02"} -> TableSchema]}

Swap(seq, i) ==
  [j \in 1..Len(seq) |-> IF j = i THEN seq[i + 1] ELSE IF j = i + 1 THEN seq[i] ELSE seq[j]]

InsertAt(seq, i, x) == SubSeq(seq, 1, i) \o <<x>> \o SubSeq(seq, i + 1, Len(seq))

HashInit ==
  /\ graph = "pipeline"
  /\ schema_only = FALSE
  /\ pc = "__end__"
  /\ messages = 0
  /\ schema = EmptySchema
  /\ quality_report = {}
  /\ documentation = {}
  /\ artifacts = <<>>
  /\ current_task = "pipeline"
  /\ errors = <<>>
  /\ cache = AbsentCache
  /\ cache0 = cache
  /\ input = AgentState
  /\ ran = {}
  /\ first = "none"
  /\ fresh = EmptySchema
  /\ extraction = "none"
  /\ cache_write = "none"
  /\ orig \in HashSchemas
  /\ cur = orig
  /\ rel = "same"
  /\ ToolsIdle

\* the same map with two neighbouring table keys exchanged
PermuteTables ==
  /\ \E i \in 1..(Len(cur.order) - 1) : cur' = [cur EXCEPT !.order = Swap(cur.order, i)]
  /\ rel' = IF rel = "same" THEN "permuted" ELSE rel
  /\ UNCHANGED <<graph, schema_only, cache0, pc, state_vars, cache, hist_vars, orig, tool_vars>>

\* the same map with the keys of one table exchanged
PermuteFields ==
  /\ \E k \in Range(cur.order) :
       cur' = [cur EXCEPT !.tab[k].order = Swap(cur.tab[k].order, 1)]
  /\ rel' = IF rel = "same" THEN "permuted" ELSE rel
  /\ UNCHANGED <<graph, schema_only, cache0, pc, state_vars, cache, hist_vars, orig, tool_vars>>

\* one column added to one table, once
AddColumn ==
  /\ rel \in {"same", "permuted"}
  /\ \E k \in Range(cur.order) :
       \E c \in Range(ColNames) \ Range(cur.tab[k].columns) :
         \E i \in 0..Len(cur.tab[k].columns) :
           cur' = [cur EXCEPT !.tab[k].columns = InsertAt(cur.tab[k].columns, i, c)]
  /\ rel' = "added"
  /\ UNCHANGED <<graph, schema_only, cache0, pc, state_vars, cache, hist_vars, orig, tool_vars>>

HashNext == PermuteTables \/ PermuteFields \/ AddColumn

HashSpec == HashInit /\ [][HashNext]_vars

\* ------------------------------------------------------------------------
\* Schema discovery: the inspectors of core/db_connectors.py, the endpoint
\* server.get_schema and the tools get_columns and get_constraints
\* ------------------------------------------------------------------------
\* the catalog of the connected database, tables in get_table_names order
Database ==
  <<[schema |-> "main", table_name |-> "customers",
     columns |-> <<[name |-> "id", type |-> "INTEGER", nullable |-> FALSE, default |-> "None"],
                   [name |-> "name", type |-> "VARCHAR", nullable |-> TRUE, default |-> "None"]>>,
     pk |-> <<"id">>, fks |-> <<>>,
     unique |-> <<"customers_name_key">>, check |-> <<>>,
     indexes |-> <<"ix_customers_name">>, rows |-> 2],
    [schema |-> "main", table_name |-> "orders",
     columns |-> <<[name |-> "id", type |-> "INTEGER", nullable |-> FALSE, default |-> "None"],
                   [name |-> "customer_id", type |-> "INTEGER", nullable |-> TRUE, default |-> "None"]>>,
     pk |-> <<"id">>,
     fks |-> <<[constrained_columns |-> <<"customer_id">>, referred_table |-> "customers",
                referred_columns |-> <<"id">>]>>,
     unique |-> <<>>, check |-> <<"orders_id_check">>, indexes |-> <<>>, rows |-> 3],
    [schema |-> "sales", table_name |-> "regions",
     columns |-> <<[name |-> "code", type |-> "VARCHAR", nullable |-> FALSE, default |-> "None"]>>,
     pk |-> <<"code">>, fks |-> <<>>,
     unique |-> <<>>, check |-> <<>>, indexes |-> <<>>, rows |-> 1],
    [schema |-> "public", table_name |-> "customers",
     columns |-> <<[name |-> "id", type |-> "INTEGER", nullable |-> FALSE, default |-> "None"]>>,
     pk |-> <<"id">>, fks |-> <<>>,
     unique |-> <<>>, check |-> <<>>, indexes |-> <<>>, rows |-> 0]>>

\* what inspector.get_schema_names returns, system schemas included
SchemaNames == <<"information_schema", "main", "pg_catalog", "public", "sales">>

InspectorKinds == {"duckdb", "sqlalchemy"}

\* a metadata query that fails: the query `op` on one table, the table
\* listing of one schema (op = "tables"), or the schema listing
Fault(sn, tn, op) == [schema |-> sn, table |-> tn, op |-> op]

Fails(F, t, op) == Fault(t.schema, t.table_name, op) \in F

Raised(op) == [raised |-> TRUE, error |-> op \o " query failed", value |-> <<>>]

Returned(v) == [raised |-> FALSE, error |-> "", value |-> v]

\* DuckDBInspector.get_<op>: the primary-key and foreign-key queries catch
\* their own failures, the column query does not, the rest is not queried
\* at all
DuckDBInspector(op, t, F) ==
  CASE op = "columns" ->
         IF Fails(F, t, "columns") THEN Raised("columns") ELSE Returned(t.columns)
    [] op = "pk" ->
         IF Fails(F, t, "pk")
           THEN Returned([constrained_columns |-> <<>>, name |-> "None"])
           ELSE Returned([constrained_columns |-> t.pk, name |-> t.table_name \o "_pkey"])
    [] op = "fks" ->
         IF Fails(F, t, "fks") THEN Returned(<<>>) ELSE Returned(t.fks)
    [] OTHER -> Returned(<<>>)

\* get_inspector(engine).get_<op>(table, schema=...): the DuckDB wrapper, or
\* sqlalchemy.inspect(engine), whose reflection calls either answer from
\* the catalog or raise
inspector(kind, op, t, F) ==
  IF kind = "duckdb" THEN DuckDBInspector(op, t, F)
  ELSE IF Fails(F, t, op) THEN Raised(op)
  ELSE CASE op = "columns" -> Returned(t.columns)
         [] op = "pk" -> Returned([constrained_columns |-> t.pk,
                                   name |-> t.table_name \o "_pkey"])
         [] op = "fks" -> Returned(t.fks)
         [] op = "unique" -> Returned(t.unique)
         [] op = "check" -> Returned(t.check)
         [] op = "indexes" -> Returned(t.indexes)

\* the tables of one schema, as indexes into Database
inspector_get_table_names(sn) ==
  SelectSeq([i \in 1..Len(Database) |-> i], LAMBDA i : Database[i].schema = sn)

\* both branches of list_schemas exclude these; pg_toast is not in the catalog
list_schemas ==
  SelectSeq(SchemaNames, LAMBDA s : s \notin {"information_schema", "pg_catalog", "pg_toast"})

\* data[key] = value on a Python dict: a new key goes last, a known key is
\* replaced in place
DictSet(d, k, v) ==
  IF k \in Range(d.order)
    THEN [d EXCEPT !.tab[k] = v]
    ELSE [order |-> Append(d.order, k),
          tab |-> [x \in Range(d.order) \cup {k} |-> IF x = k THEN v ELSE d.tab[x]]]

\* server.get_schema: full = f"{sn}.{tn}" if sn != "main" and sn != "public" else tn
full_name(sn, tn) == IF sn # "main" /\ sn # "public" THEN sn \o "." \o tn ELSE tn

\* the body of the table loop of server.get_schema: four guarded queries
\* and the entry assembled from what they left
table_entry(kind, t, F) ==
  LET c == inspector(kind, "columns", t, F)
      cols == IF c.raised THEN <<>> ELSE c.value
      p == inspector(kind, "pk", t, F)
      pk_cols == IF p.raised THEN <<>> ELSE p.value.constrained_columns
      f == inspector(kind, "fks", t, F)
      fks == IF f.raised THEN <<>> ELSE f.value
      rc == IF Fails(F, t, "count") THEN 0 ELSE t.rows
  IN  [table_name |-> t.table_name,
       schema |-> t.schema,
       row_count |-> rc,
       columns |-> [j \in 1..Len(cols) |->
                      [name |-> cols[j].name, type |-> cols[j].type,
                       nullable |-> cols[j].nullable,
                       is_primary_key |-> cols[j].name \in Range(pk_cols)]],
       primary_keys |-> pk_cols,
       foreign_keys |-> [j \in 1..Len(fks) |->
                           [from_column |-> fks[j].constrained_columns[1],
                            to_table |-> fks[j].referred_table,
                            to_column |-> fks[j].referred_columns[1]]]]

RECURSIVE scan_tables(_, _, _, _)
scan_tables(kind, F, idx, data) ==
  IF idx = <<>> THEN data
  ELSE LET t == Database[Head(idx)]
       IN  scan_tables(kind, F, Tail(idx),
                       DictSet(data, full_name(t.schema, t.table_name), table_entry(kind, t, F)))

\* the schema loop: a schema whose table listing fails is skipped
RECURSIVE scan_schemas(_, _, _, _)
scan_schemas(kind, F, schemas, data) ==
  IF schemas = <<>> THEN data
  ELSE IF Fault(Head(schemas), "", "tables") \in F
    THEN scan_schemas(kind, F, Tail(schemas), data)
    ELSE scan_schemas(kind, F, Tail(schemas),
                      scan_tables(kind, F, inspector_get_table_names(Head(schemas)), data))

FaultSets(points) == {F \in SUBSET points : Cardinality(F) <= MaxFaults}

\* the queries server.get_schema issues: the schema listing, the table
\* listing of each schema it scans, four queries per table
SchemaFaultSets ==
  FaultSets({Fault("", "", "schemas")}
    \cup {Fault(list_schemas[i], "", "tables") : i \in 1..Len(list_schemas)}
    \cup {Fault(Database[i].schema, Database[i].table_name, op) :
            i \in 1..Len(Database), op \in {"columns", "pk", "fks", "count"}})

\* GET /api/schema
get_schema ==
  /\ called' = "get_schema"
  /\ \/ /\ ~IsEmpty(pipeline_schema)
        /\ scan' = NoScan
        /\ response' = [ok |-> TRUE, error |-> "", body |-> pipeline_schema]
        /\ UNCHANGED pipeline_schema
     \/ /\ IsEmpty(pipeline_schema)
        /\ current_engine = "none"
        /\ scan' = NoScan
        /\ response' = [ok |-> FALSE, error |-> "Connect to database first", body |-> EmptySchema]
        /\ UNCHANGED pipeline_schema
     \/ /\ IsEmpty(pipeline_schema)
        /\ current_engine # "none"
        /\ \E F \in SchemaFaultSets :
             /\ scan' = [kind |-> current_engine, table |-> 0, faults |-> F]
             /\ IF Fault("", "", "schemas") \in F
                  THEN /\ response' = [ok |-> FALSE, error |-> "schemas query failed",
                                       body |-> EmptySchema]
                       /\ UNCHANGED pipeline_schema
                  ELSE \E data \in {scan_schemas(current_engine, F, list_schemas, EmptySchema)} :
                         /\ pipeline_schema' = data
                         /\ response' = [ok |-> TRUE, error |-> "", body |-> data]
  /\ UNCHANGED <<current_engine, pipeline_documentation, docs_request, graph_vars, engine_vars, sql_vars, quality_vars>>

\* tools.schema_tools.get_columns: both queries under one try
get_columns ==
  /\ called' = "get_columns"
  /\ \E kind \in InspectorKinds, i \in 1..Len(Database) :
       \E F \in FaultSets({Fault(Database[i].schema, Database[i].table_name, op) :
                             op \in {"columns", "pk"}}) :
         LET t == Database[i]
             columns == inspector(kind, "columns", t, F)
             pk_constraint == inspector(kind, "pk", t, F)
         IN  /\ scan' = [kind |-> kind, table |-> i, faults |-> F]
             /\ response' =
                  IF columns.raised
                    THEN [ok |-> FALSE, error |-> columns.error, body |-> <<>>]
                  ELSE IF pk_constraint.raised
                    THEN [ok |-> FALSE, error |-> pk_constraint.error, body |-> <<>>]
                  ELSE [ok |-> TRUE, error |-> "",
                        body |-> [table |-> t.table_name, schema |-> t.schema,
                                  columns |-> [j \in 1..Len(columns.value) |->
                                     [name |-> columns.value[j].name,
                                      data_type |-> columns.value[j].type,
                                      nullable |-> columns.value[j].nullable,
                                      default |-> columns.value[j].default,
                                      is_primary_key |-> columns.value[j].name
                                         \in Range(pk_constraint.value.constrained_columns)]]]]
  /\ UNCHANGED <<current_engine, pipeline_schema, pipeline_documentation, docs_request, graph_vars, engine_vars, sql_vars, quality_vars>>

\* tools.schema_tools.get_constraints: the four calls under one try, the
\* first exception replaces the whole answer
get_constraints ==
  /\ called' = "get_constraints"
  /\ \E kind \in InspectorKinds, i \in 1..Len(Database) :
       \E F \in FaultSets({Fault(Database[i].schema, Database[i].table_name, op) :
                             op \in {"pk", "unique", "check", "indexes"}}) :
         LET t == Database[i]
             r == [j \in 1..4 |->
                     inspector(kind, <<"pk", "unique", "check", "indexes">>[j], t, F)]
             failed == {j \in 1..Len(r) : r[j].raised}
         IN  /\ scan' = [kind |-> kind, table |-> i, faults |-> F]
             /\ response' =
                  IF failed # {}
                    THEN [ok |-> FALSE,
                          error |-> r[CHOOSE j \in failed : \A k \in failed : j <= k].error,
                          body |-> <<>>]
                    ELSE [ok |-> TRUE, error |-> "",
                          body |-> [table |-> t.table_name,
                                    primary_key |-> r[1].value,
                                    unique_constraints |-> r[2].value,
                                    check_constraints |-> r[3].value,
                                    indexes |-> r[4].value]]
  /\ UNCHANGED <<current_engine, pipeline_schema, pipeline_documentation, docs_request, graph_vars, engine_vars, sql_vars, quality_vars>>

\* the requests POST /api/generate-docs is given: every table or the one
\* table name the catalog has in two schemas, the schema name given or left
\* to its default; the schema and table listings answer
DocsRequests ==
  [table : {"", "customers"}, schema : {"", "public"}, faults : {{}}]

\* POST /api/generate-docs: one named table, or every table of every listed
\* schema.  Whether the documentation of a table is generated, left as the
\* model's raw text, built without a model or fails, its entry is stored
\* under the same key, which leaves out the schema name main only; the
\* entry is kept as the pair it names.
generate_docs ==
  /\ called' = "generate_docs"
  /\ \E kind \in (IF current_engine = "none" THEN InspectorKinds ELSE {current_engine}) :
       LET table == docs_request.table
           F == docs_request.faults
           schema_name == IF docs_request.schema # "" THEN docs_request.schema
                          ELSE IF kind = "duckdb" THEN "main" ELSE "public"
           listed == SelectSeq([i \in 1..Len(Database) |->
                                  <<Database[i].schema, Database[i].table_name>>],
                               LAMBDA st : /\ st[1] \in Range(list_schemas)
                                           /\ Fault(st[1], "", "tables") \notin F)
           tables_to_document == IF table # "" THEN <<<<schema_name, table>>>> ELSE listed
           key(st) == IF st[1] # "main" THEN st[1] \o "." \o st[2] ELSE st[2]
           entry(st) == [table_name |-> st[2], schema_name |-> st[1]]
           n == Len(tables_to_document)
           new == SelectSeq([j \in 1..n |-> j],
                            LAMBDA j : \A i \in 1..(j - 1) :
                              key(tables_to_document[i]) # key(tables_to_document[j]))
           last(k) == CHOOSE j \in 1..n :
                        /\ key(tables_to_document[j]) = k
                        /\ \A i \in (j + 1)..n : key(tables_to_document[i]) # k
           docs == [order |-> [x \in 1..Len(new) |-> key(tables_to_document[new[x]])],
                    tab |-> [k \in {key(tables_to_document[j]) : j \in 1..n} |->
                               entry(tables_to_document[last(k)])]]
       IN  /\ scan' = [kind |-> kind, table |-> 0, faults |-> F]
           /\ IF table = "" /\ Fault("", "", "schemas") \in F
                THEN /\ response' = [ok |-> FALSE, error |-> "schemas query failed",
                                     body |-> EmptySchema]
                     /\ UNCHANGED pipeline_documentation
                ELSE /\ pipeline_documentation' = docs
                     /\ response' = [ok |-> TRUE, error |-> "", body |-> docs]
  /\ UNCHANGED <<current_engine, pipeline_schema, docs_request, graph_vars, engine_vars,
                 sql_vars, quality_vars>>

\* a server process, connected or not, before its first schema request
DiscoveryInit ==
  /\ GraphIdle
  /\ EngineIdle /\ SqlIdle /\ QualityIdle
  /\ current_engine \in {"none"} \cup InspectorKinds
  /\ pipeline_schema = EmptySchema
  /\ pipeline_documentation = EmptySchema
  /\ docs_request = [table |-> "none", schema |-> "", faults |-> {}]
  /\ scan = NoScan
  /\ called = "none"
  /\ response = NoResponse

\* the schema endpoint of the server
DiscoveryNext == get_schema

DiscoverySpec == DiscoveryInit /\ [][DiscoveryNext]_vars

\* a server process about to be asked for its schema and its documentation
KeysInit ==
  /\ GraphIdle
  /\ EngineIdle /\ SqlIdle /\ QualityIdle
  /\ current_engine \in {"none"} \cup InspectorKinds
  /\ pipeline_schema = EmptySchema
  /\ pipeline_documentation = EmptySchema
  /\ docs_request \in DocsRequests
  /\ scan = NoScan
  /\ called = "none"
  /\ response = NoResponse

KeysNext == get_schema \/ generate_docs

KeysSpec == KeysInit /\ [][KeysNext]_vars

\* the schema tools, which build their own engine and inspector per call
SchemaToolsNext == get_columns \/ get_constraints

SchemaToolsSpec == DiscoveryInit /\ [][SchemaToolsNext]_vars


\* ------------------------------------------------------------------------
\* Engine construction: core/db_connectors.get_engine
\* ------------------------------------------------------------------------
\* a URL is the sequence of its parts; its text is their concatenation
\* str(BASE_DIR / "data" / "neuro_fabric.duckdb")
DUCKDB_PATH == <<"data/neuro_fabric.duckdb">>

\* db_config["url"] as callers pass it; <<>> is no URL
CallerURLs ==
  {<<>>,
   <<"duckdb:///", "data/a.duckdb">>,
   <<"duckdb:///", "data/b.duckdb">>,
   <<"duckdb:///">> \o DUCKDB_PATH,
   <<"postgresql://", "db.example/app">>,
   <<"postgresql://", "db.example/duckdb">>}

\* DATABASE_URL as the environment may set it; <<>> is unset
EnvURLs ==
  {<<>>, <<"postgresql://", "db.example/app">>, <<"mysql://", "db.example/app">>}

\* word in url: some part of the url is one in which the word occurs
Contains(url, word) ==
  \E i \in 1..Len(url) :
    url[i] \in (IF word = "duckdb"
                  THEN {"duckdb:///", "data/a.duckdb", "data/b.duckdb",
                        "data/neuro_fabric.duckdb", "db.example/duckdb"}
                ELSE IF word = "postgresql" THEN {"postgresql://"}
                ELSE {})

\* url.replace(part, "")
Replace(url, part) == SelectSeq(url, LAMBDA x : x # part)

\* DuckDBEngine(path): the connection is opened on first use
DuckDBEngine(db_path) == [backend |-> "duckdb", target |-> db_path, probed |-> FALSE]

\* sqlalchemy.create_engine(url, pool_pre_ping=True): connects on first use
create_engine(url) == [backend |-> "sqlalchemy", target |-> url, probed |-> FALSE]

\* get_engine(db_config) while the addressed server is up or down; the
\* answer is the engine's index in `engines`
get_engine ==
  /\ Len(calls) < MaxCalls
  /\ \E url \in CallerURLs, up \in BOOLEAN :
       LET new == Len(engines) + 1
           call(e) == Append(calls, [url |-> url, up |-> up, engine |-> e])
       IN  IF url # <<>>
             THEN /\ engines' = Append(engines,
                                       IF Contains(url, "duckdb")
                                         THEN DuckDBEngine(Replace(url, "duckdb:///"))
                                         ELSE create_engine(url))
                  /\ calls' = call(new)
                  /\ UNCHANGED _duckdb_engine_cache
           ELSE IF DATABASE_URL # <<>> /\ Contains(DATABASE_URL, "postgresql") /\ up
             THEN /\ engines' = Append(engines, [create_engine(DATABASE_URL) EXCEPT !.probed = TRUE])
                  /\ calls' = call(new)
                  /\ UNCHANGED _duckdb_engine_cache
           ELSE IF _duckdb_engine_cache = 0
             THEN /\ engines' = Append(engines, DuckDBEngine(DUCKDB_PATH))
                  /\ _duckdb_engine_cache' = new
                  /\ calls' = call(new)
             ELSE /\ calls' = call(_duckdb_engine_cache)
                  /\ UNCHANGED <<engines, _duckdb_engine_cache>>
  /\ UNCHANGED <<DATABASE_URL, _conn, opened, closed, handles, lifecycle_op,
                 graph_vars, disc_vars, sql_vars, quality_vars>>

\* a process started with or without DATABASE_URL in its environment
EngineInit ==
  /\ GraphIdle
  /\ DiscoveryIdle /\ SqlIdle /\ QualityIdle
  /\ DATABASE_URL \in EnvURLs
  /\ _duckdb_engine_cache = 0
  /\ engines = <<>>
  /\ calls = <<>>
  /\ _conn = 0
  /\ opened = 0
  /\ closed = {}
  /\ handles = <<>>
  /\ lifecycle_op = [op |-> "none", conn |-> 0, was_closed |-> FALSE]

EngineNext == get_engine

EngineSpec == EngineInit /\ [][EngineNext]_vars

\* ------------------------------------------------------------------------
\* The connection of one DuckDBEngine: connect, dispose, and the Connection
\* and Inspector objects built on it
\* ------------------------------------------------------------------------
\* DuckDBEngine._get_conn: the underlying connection, opened when there is
\* none; connections are numbered in the order duckdb.connect opens them
_get_conn == IF _conn = 0 THEN opened + 1 ELSE _conn

\* DuckDBEngine.connect(): a DuckDBConnection around the underlying
\* connection, which the object keeps
connect ==
  /\ Len(handles) < MaxHandles
  /\ _conn = 0 => opened < MaxOpened
  /\ _conn' = _get_conn
  /\ opened' = IF _conn = 0 THEN opened + 1 ELSE opened
  /\ handles' = Append(handles, [class |-> "DuckDBConnection", conn |-> _get_conn])
  /\ lifecycle_op' = [op |-> "connect", conn |-> _get_conn, was_closed |-> FALSE]
  /\ UNCHANGED <<closed, DATABASE_URL, _duckdb_engine_cache, engines, calls,
                 graph_vars, disc_vars, sql_vars, quality_vars>>

\* get_inspector(engine): DuckDBInspector.__init__ takes engine._get_conn()
\* and keeps it
get_inspector ==
  /\ Len(handles) < MaxHandles
  /\ _conn = 0 => opened < MaxOpened
  /\ _conn' = _get_conn
  /\ opened' = IF _conn = 0 THEN opened + 1 ELSE opened
  /\ handles' = Append(handles, [class |-> "DuckDBInspector", conn |-> _get_conn])
  /\ lifecycle_op' = [op |-> "get_inspector", conn |-> _get_conn, was_closed |-> FALSE]
  /\ UNCHANGED <<closed, DATABASE_URL, _duckdb_engine_cache, engines, calls,
                 graph_vars, disc_vars, sql_vars, quality_vars>>

\* DuckDBConnection.execute(query): self.conn.execute(sql) on the connection
\* the object was built with; on a closed connection the call raises
execute ==
  /\ \E h \in 1..Len(handles) :
       /\ handles[h].class = "DuckDBConnection"
       /\ lifecycle_op' = [op |-> "execute", conn |-> handles[h].conn,
                           was_closed |-> handles[h].conn \in closed]
  /\ UNCHANGED <<_conn, opened, closed, handles, DATABASE_URL, _duckdb_engine_cache,
                 engines, calls, graph_vars, disc_vars, sql_vars, quality_vars>>

\* DuckDBInspector.get_schema_names and the other get_ methods: each runs
\* self.conn.execute on the connection taken at construction
get_schema_names ==
  /\ \E h \in 1..Len(handles) :
       /\ handles[h].class = "DuckDBInspector"
       /\ lifecycle_op' = [op |-> "get_schema_names", conn |-> handles[h].conn,
                           was_closed |-> handles[h].conn \in closed]
  /\ UNCHANGED <<_conn, opened, closed, handles, DATABASE_URL, _duckdb_engine_cache,
                 engines, calls, graph_vars, disc_vars, sql_vars, quality_vars>>

\* DuckDBEngine.dispose(): closes the underlying connection if there is one
dispose ==
  /\ closed' = IF _conn # 0 THEN closed \cup {_conn} ELSE closed
  /\ _conn' = 0
  /\ lifecycle_op' = [op |-> "dispose", conn |-> _conn, was_closed |-> FALSE]
  /\ UNCHANGED <<opened, handles, DATABASE_URL, _duckdb_engine_cache, engines, calls,
                 graph_vars, disc_vars, sql_vars, quality_vars>>

\* a DuckDBEngine as its constructor leaves it
LifecycleInit ==
  /\ GraphIdle
  /\ DiscoveryIdle /\ EngineIdle /\ SqlIdle /\ QualityIdle

LifecycleNext == connect \/ get_inspector \/ execute \/ get_schema_names \/ dispose

LifecycleSpec == LifecycleInit /\ [][LifecycleNext]_vars

\* ------------------------------------------------------------------------
\* The query surface: tools.sql_tools.execute_query and server.execute_query
\* ------------------------------------------------------------------------
\* an SQL text is the sequence of its parts; its text is their
\* concatenation.  "t" stands for the rest of a statement (TABLE t, FROM t)
\* a blank and a tab
Whitespace == {" ", "\t"}

SqlParts == {"select 1;", "drop", "DeLeTe", " ", "\t", "t"}

SqlTexts == UNION {[1..n -> SqlParts] : n \in 1..MaxParts}

RECURSIVE lstrip(_)
lstrip(s) == IF s # <<>> /\ Head(s) \in Whitespace THEN lstrip(Tail(s)) ELSE s

RECURSIVE rstrip(_)
rstrip(s) ==
  IF s # <<>> /\ s[Len(s)] \in Whitespace THEN rstrip(SubSeq(s, 1, Len(s) - 1)) ELSE s

\* str.strip()
strip(s) == rstrip(lstrip(s))

UpperPart(x) ==
  CASE x = "select 1;" -> "SELECT 1;"
    [] x = "drop" -> "DROP"
    [] x = "DeLeTe" -> "DELETE"
    [] x = "t" -> "T"
    [] OTHER -> x

\* str.upper()
upper(s) == [i \in 1..Len(s) |-> UpperPart(s[i])]

\* s.startswith(prefix), for the prefixes "SELECT" and "WITH"
startswith(s, prefix) == s # <<>> /\ prefix = "SELECT" /\ Head(s) = "SELECT 1;"

\* (keyword + " ") in s: no part holds a keyword with a blank after it, so
\* the keyword ends one part and the blank starts the next
contains_keyword_blank(s, keyword) ==
  \E i \in 1..(Len(s) - 1) : s[i] = keyword /\ s[i + 1] = " "

\* tools.sql_tools.execute_query(sql) on the submitted text: the statement
\* may still fail in the engine once it got there
tool_execute_query ==
  /\ query.surface = "none"
  /\ \E sql \in {query.sql}, fails \in BOOLEAN :
       LET normalized == upper(strip(sql))
       IN  /\ query' = [surface |-> "tool", sql |-> sql]
           /\ IF ~startswith(normalized, "SELECT") /\ ~startswith(normalized, "WITH")
                THEN /\ executed' = <<>>
                     /\ reply' = [error |-> "Only SELECT/WITH queries are permitted.", rows |-> 0]
                ELSE /\ executed' = sql
                     /\ reply' = IF fails THEN [error |-> "syntax error", rows |-> 0]
                                  ELSE [error |-> "", rows |-> 1]
  /\ UNCHANGED <<graph_vars, disc_vars, engine_vars, quality_vars>>

\* POST /api/query
server_execute_query ==
  /\ query.surface = "none"
  /\ \E sql \in {query.sql}, fails \in BOOLEAN :
       LET sql_up == upper(strip(sql))
       IN  /\ query' = [surface |-> "server", sql |-> sql]
           /\ IF current_engine = "none"
                THEN /\ executed' = <<>>
                     /\ reply' = [error |-> "Connect to database first", rows |-> 0]
              ELSE IF \E k \in {"DROP", "TRUNCATE", "ALTER", "DELETE", "INSERT", "UPDATE"} :
                        contains_keyword_blank(sql_up, k)
                THEN /\ executed' = <<>>
                     /\ reply' = [error |-> "Write operations disabled.", rows |-> 0]
                ELSE /\ executed' = sql
                     /\ reply' = IF fails THEN [error |-> "syntax error", rows |-> 0]
                                  ELSE [error |-> "", rows |-> 1]
  /\ UNCHANGED <<graph_vars, disc_vars, engine_vars, quality_vars>>

\* a server process, connected or not, and the chat agent's SQL tool, with
\* one SQL text about to be submitted to either
SqlInit ==
  /\ GraphIdle
  /\ EngineIdle /\ QualityIdle
  /\ current_engine \in {"none"} \cup InspectorKinds
  /\ pipeline_schema = EmptySchema
  /\ pipeline_documentation = EmptySchema
  /\ docs_request = [table |-> "none", schema |-> "", faults |-> {}]
  /\ scan = NoScan
  /\ called = "none"
  /\ response = NoResponse
  /\ query \in [surface : {"none"}, sql : SqlTexts]
  /\ executed = <<>>
  /\ reply = [error |-> "", rows |-> 0]

SqlNext == tool_execute_query \/ server_execute_query

SqlSpec == SqlInit /\ [][SqlNext]_vars

\* ------------------------------------------------------------------------
\* tools.quality_tools.compute_correlation_matrix
\* ------------------------------------------------------------------------
\* correlations are counted in units of 0.00001, matrix entries (four
\* decimals) in units of 0.0001
NumericCols == {"a", "b", "c"}

\* the `columns` argument split at the commas, and CORR(x, y) of the table
\* for each pair of columns: a perfect negative, none (NULL or 0), a
\* moderate one
CorrelationInputs ==
  [columns : UNION {[1..n -> NumericCols] : n \in 1..MaxCorrCols},
   corr : [{s \in SUBSET NumericCols : Cardinality(s) = 2} -> {-100000, 0, 56789}]]

\* float(row["correlation"]) if row["correlation"] else 0; a column is
\* perfectly correlated with itself
CORR(corr, x, y) == IF x = y THEN 100000 ELSE corr[{x, y}]

\* round(corr, 4): none of the correlations lies half-way between two results
round4(x) == (x + 5) \div 10

\* matrix[col] = {}
MatrixReset(mx, col) == [p \in {q \in DOMAIN mx : q[1] # col} |-> mx[p]]

\* matrix[row][col] = v
MatrixSet(mx, row, col, v) ==
  [p \in DOMAIN mx \cup {<<row, col>>} |-> IF p = <<row, col>> THEN v ELSE mx[p]]

\* the inner loop, from column j on
RECURSIVE matrix_row(_, _, _, _, _)
matrix_row(cols, corr, i, j, mx) ==
  IF j > Len(cols) THEN mx
  ELSE matrix_row(cols, corr, i, j + 1,
         IF i = j THEN MatrixSet(mx, cols[i], cols[j], 10000)
         ELSE IF j > i
           THEN MatrixSet(MatrixSet(mx, cols[i], cols[j], round4(CORR(corr, cols[i], cols[j]))),
                          cols[j], cols[i], round4(CORR(corr, cols[i], cols[j])))
         ELSE mx)

\* the outer loop, from column i on: each pass starts by emptying its row
RECURSIVE matrix_rows(_, _, _, _)
matrix_rows(cols, corr, i, mx) ==
  IF i > Len(cols) THEN mx
  ELSE matrix_rows(cols, corr, i + 1, matrix_row(cols, corr, i, 1, MatrixReset(mx, cols[i])))

Abs(x) == IF x < 0 THEN -x ELSE x

\* the pairs reported as significant (the answer lists them by falling
\* |correlation|; the model keeps them as a set)
significant_correlations(cols, corr) ==
  {[column_1 |-> cols[i], column_2 |-> cols[j],
    correlation |-> round4(CORR(corr, cols[i], cols[j])),
    strength |-> IF Abs(CORR(corr, cols[i], cols[j])) > 70000
                   THEN (IF CORR(corr, cols[i], cols[j]) > 70000
                           THEN "strong positive" ELSE "strong negative")
                   ELSE (IF CORR(corr, cols[i], cols[j]) > 50000
                           THEN "moderate positive" ELSE "moderate negative")] :
     <<i, j>> \in {q \in (1..Len(cols)) \X (1..Len(cols)) :
                    q[1] < q[2] /\ Abs(CORR(corr, cols[q[1]], cols[q[2]])) > 50000}}

\* compute_correlation_matrix on the column list handed in
compute_correlation_matrix ==
  /\ corr_input.columns # <<>>
  /\ corr_result = NoAnswer
  /\ corr_result' =
       IF Len(corr_input.columns) < 2
         THEN [ok |-> FALSE, error |-> "Need at least 2 numeric columns for correlation"]
         ELSE [ok |-> TRUE, error |-> "",
               columns_analyzed |-> corr_input.columns,
               correlation_matrix |->
                 matrix_rows(corr_input.columns, corr_input.corr, 1, [p \in {} |-> 0]),
               significant_correlations |->
                 significant_correlations(corr_input.columns, corr_input.corr)]
  /\ UNCHANGED <<corr_input, pk_table, pk_result, digit_counts, benford_result,
                 stat_input, stat_result, graph_vars, disc_vars, engine_vars, sql_vars>>

\* ------------------------------------------------------------------------
\* tools.quality_tools.check_pk_uniqueness
\* ------------------------------------------------------------------------
\* the values of a two-column primary key
PkTuples == <<<<1, 1>>, <<1, 2>>, <<2, 1>>, <<2, 2>>>>

\* a table: how many rows carry each of these key tuples, next to `bulk`
\* further rows with a key tuple of their own each
PkTables == [bulk : {0, ManyRows}, copies : [1..Len(PkTuples) -> 0..MaxCopies]]

RECURSIVE Sum(_, _)
Sum(f, n) == IF n = 0 THEN 0 ELSE f[n] + Sum(f, n - 1)

\* SELECT COUNT(*) FROM table
count_rows(t) == t.bulk + Sum(t.copies, Len(t.copies))

\* SELECT COUNT(*) FROM (SELECT pk columns FROM table GROUP BY pk columns)
count_groups(t) == t.bulk + Cardinality({k \in 1..Len(t.copies) : t.copies[k] > 0})

\* round(unique / total, 4) in units of 0.0001; within the bounds no
\* quotient lies half-way between two results
round_ratio(unique, total) == (2 * unique * 10000 + total) \div (2 * total)

\* check_pk_uniqueness on the table handed in
check_pk_uniqueness ==
  /\ pk_table.copies # <<>>
  /\ pk_result = NoAnswer
  /\ \E fails \in BOOLEAN :
       LET total == IF count_rows(pk_table) = 0 THEN 1 ELSE count_rows(pk_table)
           unique == count_groups(pk_table)
       IN  pk_result' =
             IF fails THEN [ok |-> FALSE, error |-> "query failed"]
             ELSE [ok |-> TRUE, error |-> "",
                   total_rows |-> total,
                   unique_pk_rows |-> unique,
                   uniqueness_rate |-> round_ratio(unique, total)]
  /\ UNCHANGED <<pk_table, corr_input, corr_result, digit_counts, benford_result,
                 stat_input, stat_result, graph_vars, disc_vars, engine_vars, sql_vars>>

\* ------------------------------------------------------------------------
\* tools.quality_tools.benford_law_analysis
\* ------------------------------------------------------------------------
\* the expected share of each leading digit, in units of 0.001
benford_expected == <<301, 176, 125, 97, 79, 67, 58, 51, 46>>

\* the positive values of a column, counted by leading digit: small
\* columns, and one column of 1000 values in the expected shares
DigitDatasets == [1..9 -> 0..MaxDigitCount] \cup {benford_expected}

\* ((observed_count - expected_count) ** 2) / expected_count of one digit
\* in units of 0.001: the quotient lies between `lo` and `hi`
chi_term(counts, d, n) ==
  LET num == (1000 * counts[d] - benford_expected[d] * n) * (1000 * counts[d] - benford_expected[d] * n)
      den == benford_expected[d] * n
  IN  [lo |-> num \div den, hi |-> (num \div den) + (IF num % den = 0 THEN 0 ELSE 1)]

\* the sum the loop over the returned rows builds: the query returns a
\* row only for a digit that occurs
chi_square(counts) ==
  LET n == Sum(counts, 9)
      lo == [d \in 1..9 |-> IF counts[d] > 0 THEN chi_term(counts, d, n).lo ELSE 0]
      hi == [d \in 1..9 |-> IF counts[d] > 0 THEN chi_term(counts, d, n).hi ELSE 0]
  IN  [lo |-> Sum(lo, 9), hi |-> Sum(hi, 9)]

\* the risk levels a statistic between chi.lo and chi.hi can be given:
\* low below 15.5, moderate below 20.1, high otherwise
risk_levels(chi) ==
  {l \in {"low", "moderate", "high"} :
     \/ l = "low" /\ chi.lo < 15500
     \/ l = "moderate" /\ chi.hi >= 15500 /\ chi.lo < 20100
     \/ l = "high" /\ chi.hi >= 20100}

\* benford_law_analysis on the column handed in
benford_law_analysis ==
  /\ digit_counts # <<>>
  /\ benford_result = NoAnswer
  /\ \E fails \in BOOLEAN :
       IF fails THEN benford_result' = [ok |-> FALSE, error |-> "query failed"]
       ELSE IF Sum(digit_counts, 9) = 0
         THEN benford_result' = [ok |-> FALSE, error |-> "No valid positive numeric values found"]
       ELSE \E chi \in {chi_square(digit_counts)} :
              \E level \in risk_levels(chi) :
                benford_result' =
                  [ok |-> TRUE, error |-> "",
                   total_values_analyzed |-> Sum(digit_counts, 9),
                   chi_square_statistic |-> chi,
                   risk_level |-> level,
                   digit_distribution |-> digit_counts]
  /\ UNCHANGED <<digit_counts, corr_input, corr_result, pk_table, pk_result,
                 stat_input, stat_result, graph_vars, disc_vars, engine_vars, sql_vars>>

\* ------------------------------------------------------------------------
\* Null rates and outliers: tools/quality_tools.py and GET /api/quality
\* ------------------------------------------------------------------------
\* A table is its row count and the number of NULLs in each column; a column
\* is its number of NULLs and its other values in rising order.  Rates are
\* counted in units of 0.0001.
StatInputs ==
  LET Tables == {t \in [rows : 0..MaxStatRows,
                         nulls : UNION {[1..n -> 0..MaxStatRows] : n \in 0..MaxStatCols}] :
                   \A j \in 1..Len(t.nulls) : t.nulls[j] <= t.rows}
      Columns == {c \in [nulls : 0..MaxNulls,
                          vals : UNION {[1..n -> {0, 1, 10}] : n \in 0..MaxVals}] :
                    \A i \in 1..(Len(c.vals) - 1) : c.vals[i] <= c.vals[i + 1]}
  IN  \* a DuckDB table has at least one column
      {[tool |-> "compute_table_completeness", kind |-> k, rows |-> t.rows, nulls |-> t.nulls] :
         <<k, t>> \in {q \in InspectorKinds \X Tables : q[1] = "duckdb" => q[2].nulls # <<>>}}
      \cup {[tool |-> "get_quality", rows |-> t.rows, nulls |-> t.nulls, failing |-> f] :
               <<t, f>> \in {q \in Tables \X SUBSET (1..MaxStatCols) :
                               q[2] \subseteq 1..Len(q[1].nulls)}}
      \cup {[tool |-> "analyze_column_nulls", nulls |-> c.nulls, vals |-> c.vals] : c \in Columns}
      \cup {[tool |-> "detect_outliers_iqr", nulls |-> c.nulls, vals |-> c.vals] : c \in Columns}
      \cup {[tool |-> "detect_outliers_zscore", nulls |-> c.nulls, vals |-> c.vals,
              threshold |-> th] : c \in Columns, th \in {1, 3}}

\* round(1 - sum / len, 4) of `len` rates adding up to `sum`: a difference
\* half-way between two results goes where its float happens to lie
round_overall(sum, len) ==
  LET q == (10000 * len - sum) \div len
      r == (10000 * len - sum) % len
  IN  IF 2 * r < len THEN {q} ELSE IF 2 * r > len THEN {q + 1} ELSE {q, q + 1}

\* compute_table_completeness: one query with COUNT(*) and an AVG per column.
\* Without columns the select list ends in the comma after total_rows, which
\* a client/server engine rejects as a syntax error.
compute_table_completeness ==
  /\ stat_input.tool = "compute_table_completeness"
  /\ stat_result = NoAnswer
  /\ \E fails \in BOOLEAN :
       LET n == Len(stat_input.nulls)
           \* AVG over no rows is NULL, reported as 0.0
           per_col_null_rates ==
             [j \in 1..n |-> IF stat_input.rows = 0 THEN 0
                             ELSE round_ratio(stat_input.nulls[j], stat_input.rows)]
       IN  IF fails THEN stat_result' = [ok |-> FALSE, error |-> "query failed"]
           ELSE IF n = 0 /\ stat_input.kind = "sqlalchemy"
             THEN stat_result' = [ok |-> FALSE, error |-> "syntax error at or near FROM"]
           ELSE \E overall \in (IF n = 0 THEN {10000}
                                 ELSE round_overall(Sum(per_col_null_rates, n), n)) :
                  stat_result' = [ok |-> TRUE, error |-> "",
                                  total_rows |-> stat_input.rows,
                                  overall_completeness |-> overall,
                                  column_null_rates |-> per_col_null_rates]
  /\ UNCHANGED <<stat_input, corr_input, corr_result, pk_table, pk_result, digit_counts,
                 benford_result, graph_vars, disc_vars, engine_vars, sql_vars>>

\* GET /api/quality, for one table of the database: an empty table is
\* skipped, a column whose queries fail is reported with a null rate of 0
get_quality_endpoint ==
  /\ stat_input.tool = "get_quality"
  /\ stat_result = NoAnswer
  /\ \E fails \in BOOLEAN :
       LET n == Len(stat_input.nulls)
           total == stat_input.rows
           null_rate == [j \in 1..n |-> IF j \in stat_input.failing \/ total = 0 THEN 0
                                        ELSE round_ratio(stat_input.nulls[j], total)]
       IN  IF fails \/ total = 0
             THEN stat_result' = [ok |-> TRUE, error |-> "", quality |-> <<>>, total |-> 0]
           ELSE \E overall \in (IF n = 0 THEN {10000}
                                 ELSE round_overall(Sum(null_rate, n), n)) :
                  stat_result' =
                    [ok |-> TRUE, error |-> "",
                     quality |-> <<[row_count |-> total,
                                    overall_completeness |-> overall,
                                    column_quality |-> null_rate]>>,
                     total |-> 1]
  /\ UNCHANGED <<stat_input, corr_input, corr_result, pk_table, pk_result, digit_counts,
                 benford_result, graph_vars, disc_vars, engine_vars, sql_vars>>

\* analyze_column_nulls: total = row["total_rows"] or 1
analyze_column_nulls ==
  /\ stat_input.tool = "analyze_column_nulls"
  /\ stat_result = NoAnswer
  /\ \E fails \in BOOLEAN :
       LET counted == stat_input.nulls + Len(stat_input.vals)
           total == IF counted = 0 THEN 1 ELSE counted
       IN  stat_result' =
             IF fails THEN [ok |-> FALSE, error |-> "query failed"]
             ELSE [ok |-> TRUE, error |-> "",
                   total_rows |-> total,
                   null_count |-> stat_input.nulls,
                   null_rate |-> round_ratio(stat_input.nulls, total)]
  /\ UNCHANGED <<stat_input, corr_input, corr_result, pk_table, pk_result, digit_counts,
                 benford_result, graph_vars, disc_vars, engine_vars, sql_vars>>

\* PERCENTILE_CONT(k / 4) over the values in rising order, times 4: the
\* value at position k (n - 1) / 4, interpolated between its neighbours;
\* NULL over no values, which the tools read as 0
percentile_cont(vals, k) ==
  LET i == (k * (Len(vals) - 1)) \div 4 + 1
      r == (k * (Len(vals) - 1)) % 4
  IN  IF vals = <<>> THEN 0
      ELSE 4 * vals[i] + (IF r = 0 THEN 0 ELSE r * (vals[i + 1] - vals[i]))

\* detect_outliers_zscore without the return on a zero standard deviation
detect_outliers_zscore_unguarded ==
  /\ stat_input.tool = "detect_outliers_zscore"
  /\ stat_result = NoAnswer
  /\ \E failing \in {"none", "stats", "outliers", "sample"} :
       LET vals == stat_input.vals
           n == Len(vals)
           s1 == Sum(vals, n)
           s2 == Sum([i \in 1..n |-> vals[i] * vals[i]], n)
           variance == IF n < 2 THEN 0 ELSE n * s2 - s1 * s1
           total_rows == IF n = 0 THEN 1 ELSE n
           th == stat_input.threshold
           \* ABS((x - mean) / stddev) > threshold
           outliers == {i \in 1..n :
                          (n * vals[i] - s1) * (n * vals[i] - s1) * (n - 1)
                            > th * th * n * variance}
       IN  stat_result' =
             IF failing = "stats"
               THEN [ok |-> FALSE, error |-> "query failed", queries |-> <<"stats">>]
             ELSE IF failing = "outliers"
               THEN [ok |-> FALSE, error |-> "query failed",
                     queries |-> <<"stats", "outliers">>]
             ELSE IF failing = "sample"
               THEN [ok |-> FALSE, error |-> "query failed",
                     queries |-> <<"stats", "outliers", "sample">>]
             ELSE [ok |-> TRUE, error |-> "",
                   threshold |-> th,
                   mean |-> round_ratio(s1, n),
                   variance |-> [num |-> variance, den |-> n * (n - 1)],
                   total_rows |-> total_rows,
                   outlier_count |-> Cardinality(outliers),
                   outlier_percentage |-> round_ratio(Cardinality(outliers), total_rows),
                   sample_outliers |-> {vals[i] : i \in outliers},
                   queries |-> <<"stats", "outliers", "sample">>]
  /\ UNCHANGED <<stat_input, corr_input, corr_result, pk_table, pk_result, digit_counts,
                 benford_result, graph_vars, disc_vars, engine_vars, sql_vars>>

\* detect_outliers_zscore over the non-null values.  STDDEV is the sample
\* deviation: NULL for fewer than two values, 0 when all are equal; the
\* answer carries the variance (num / den) in place of its rounded root,
\* and no input has more outliers than the sample query's LIMIT 5
detect_outliers_zscore ==
  /\ stat_input.tool = "detect_outliers_zscore"
  /\ stat_result = NoAnswer
  /\ \E failing \in {"none", "stats", "outliers", "sample"} :
       LET vals == stat_input.vals
           n == Len(vals)
           s1 == Sum(vals, n)
           s2 == Sum([i \in 1..n |-> vals[i] * vals[i]], n)
           variance == IF n < 2 THEN 0 ELSE n * s2 - s1 * s1
           total_rows == IF n = 0 THEN 1 ELSE n
           th == stat_input.threshold
           \* ABS((x - mean) / stddev) > threshold
           outliers == {i \in 1..n :
                          (n * vals[i] - s1) * (n * vals[i] - s1) * (n - 1)
                            > th * th * n * variance}
       IN  stat_result' =
             IF failing = "stats"
               THEN [ok |-> FALSE, error |-> "query failed", queries |-> <<"stats">>]
             ELSE IF variance = 0
               THEN [ok |-> FALSE,
                     error |-> "Standard deviation is zero - no variation in data",
                     outlier_count |-> 0, outlier_percentage |-> 0,
                     queries |-> <<"stats">>]
             ELSE IF failing = "outliers"
               THEN [ok |-> FALSE, error |-> "query failed",
                     queries |-> <<"stats", "outliers">>]
             ELSE IF failing = "sample"
               THEN [ok |-> FALSE, error |-> "query failed",
                     queries |-> <<"stats", "outliers", "sample">>]
             ELSE [ok |-> TRUE, error |-> "",
                   threshold |-> th,
                   mean |-> round_ratio(s1, n),
                   variance |-> [num |-> variance, den |-> n * (n - 1)],
                   total_rows |-> total_rows,
                   outlier_count |-> Cardinality(outliers),
                   outlier_percentage |-> round_ratio(Cardinality(outliers), total_rows),
                   sample_outliers |-> {vals[i] : i \in outliers},
                   queries |-> <<"stats", "outliers", "sample">>]
  /\ UNCHANGED <<stat_input, corr_input, corr_result, pk_table, pk_result, digit_counts,
                 benford_result, graph_vars, disc_vars, engine_vars, sql_vars>>

\* detect_outliers_iqr over the non-null values, with the default
\* multiplier 1.5: quartiles in quarters, bounds in eighths;
\* total_rows = row["total_rows"] or 1
detect_outliers_iqr ==
  /\ stat_input.tool = "detect_outliers_iqr"
  /\ stat_result = NoAnswer
  /\ \E fails \in BOOLEAN :
       LET vals == stat_input.vals
           q1 == percentile_cont(vals, 1)
           q3 == percentile_cont(vals, 3)
           lower_bound == 2 * q1 - 3 * (q3 - q1)
           upper_bound == 2 * q3 + 3 * (q3 - q1)
           total_rows == IF vals = <<>> THEN 1 ELSE Len(vals)
           outlier_count ==
             Cardinality({i \in 1..Len(vals) :
                            8 * vals[i] < lower_bound \/ 8 * vals[i] > upper_bound})
       IN  stat_result' =
             IF fails THEN [ok |-> FALSE, error |-> "query failed"]
             ELSE [ok |-> TRUE, error |-> "",
                   q1 |-> q1, q3 |-> q3, iqr |-> q3 - q1,
                   lower_bound |-> lower_bound, upper_bound |-> upper_bound,
                   total_rows |-> total_rows,
                   outlier_count |-> outlier_count,
                   outlier_percentage |-> round_ratio(outlier_count, total_rows)]
  /\ UNCHANGED <<stat_input, corr_input, corr_result, pk_table, pk_result, digit_counts,
                 benford_result, graph_vars, disc_vars, engine_vars, sql_vars>>

\* one quality tool about to be called: a column list, a table, or a column
QualityInit ==
  /\ GraphIdle
  /\ DiscoveryIdle /\ EngineIdle /\ SqlIdle
  /\ corr_result = NoAnswer
  /\ pk_result = NoAnswer
  /\ benford_result = NoAnswer
  /\ stat_result = NoAnswer
  /\ \/ /\ corr_input \in CorrelationInputs
        /\ pk_table = [bulk |-> 0, copies |-> <<>>]
        /\ digit_counts = <<>>
        /\ stat_input = [tool |-> "none"]
     \/ /\ corr_input = [columns |-> <<>>, corr |-> <<>>]
        /\ pk_table \in PkTables
        /\ digit_counts = <<>>
        /\ stat_input = [tool |-> "none"]
     \/ /\ corr_input = [columns |-> <<>>, corr |-> <<>>]
        /\ pk_table = [bulk |-> 0, copies |-> <<>>]
        /\ digit_counts \in DigitDatasets
        /\ stat_input = [tool |-> "none"]
     \/ /\ corr_input = [columns |-> <<>>, corr |-> <<>>]
        /\ pk_table = [bulk |-> 0, copies |-> <<>>]
        /\ digit_counts = <<>>
        /\ stat_input \in StatInputs

QualityNext ==
  \/ compute_correlation_matrix
  \/ check_pk_uniqueness
  \/ benford_law_analysis
  \/ compute_table_completeness
  \/ get_quality_endpoint
  \/ analyze_column_nulls
  \/ detect_outliers_zscore
  \/ detect_outliers_iqr

QualitySpec == QualityInit /\ [][QualityNext]_vars

\* ------------------------------------------------------------------------
\* Properties
\* ------------------------------------------------------------------------
AllPopulated(st) ==
  /\ ~IsEmpty(st.schema)
  /\ st.quality_report # {}
  /\ st.documentation # {}
  /\ st.artifacts # <<>>

\* the first stage, in stage order, whose output is empty
FirstMissing(st) ==
  IF IsEmpty(st.schema) THEN "schema_agent"
  ELSE IF st.quality_report = {} THEN "quality_agent"
  ELSE IF st.documentation = {} THEN "ai_doc_agent"
  ELSE IF st.artifacts = <<>> THEN "export_agent"
  ELSE "__end__"

StageRank(n) ==
  IF n = "schema_agent" THEN 1
  ELSE IF n = "quality_agent" THEN 2
  ELSE IF n = "ai_doc_agent" THEN 3
  ELSE 4

OutputsOf(st) == <<st.schema, st.quality_report, st.documentation, st.artifacts>>

\* C1: for a pipeline-task state the router selects the schema stage iff
\* schema is empty, the quality stage iff schema is populated and
\* quality_report is empty, the documentation stage iff those two are
\* populated and documentation is empty, the export stage iff only artifacts
\* is empty, and Done iff all four are populated, whatever errors holds; the
\* pipeline graph is always at the node so selected.
RouterIsTotal ==
  current_task = "pipeline" =>
    LET r == _pipeline_router(AgentState)
    IN /\ r \in Stages \cup {"__end__"}
       /\ (r = "schema_agent") <=> IsEmpty(schema)
       /\ (r = "quality_agent") <=> (~IsEmpty(schema) /\ quality_report = {})
       /\ (r = "ai_doc_agent") <=>
            (~IsEmpty(schema) /\ quality_report # {} /\ documentation = {})
       /\ (r = "export_agent") <=>
            (~IsEmpty(schema) /\ quality_report # {} /\ documentation # {}
               /\ artifacts = <<>>)
       /\ (r = "__end__") <=> AllPopulated(AgentState)
       /\ (graph = "pipeline" /\ pc \notin {"__start__", "stopped"}) => pc = r

RouterDoneWithErrors ==
  /\ graph = "pipeline"
  /\ current_task = "pipeline"
  /\ AllPopulated(AgentState)
  /\ errors # <<>>
  /\ pc = "__end__"

\* C2: every run of the pipeline graph on a pipeline task reaches Done.
PipelineReachesDone ==
  (graph = "pipeline" /\ current_task = "pipeline" /\ ~schema_only) ~> (pc = "__end__")

\* C3: in a run of the pipeline graph, the stage the router selects comes
\* strictly after every stage that has executed.
StagesStrictlyIncrease ==
  [][(graph = "pipeline" /\ pc' \in Stages) =>
       \A s \in ran' \cap Stages : StageRank(pc') > StageRank(s)]_vars

\* C4: during a pipeline run every entry of errors is still in errors after
\* the next step.
ErrorsOnlyGrow ==
  [][graph = "pipeline" => Range(errors) \subseteq Range(errors')]_vars

\* C5: after a documentation stage in which a batch failed, the pipeline
\* goes on to export (or is Done).
DocFailureDoesNotBlock ==
  [][(graph = "pipeline" /\ pc = "ai_doc_agent" /\ Len(errors') > Len(errors)) =>
       pc' \in {"export_agent", "__end__"}]_vars

\* C6: a pipeline run started from any populated or partly populated state
\* executes first the first stage whose output is missing, executes no stage
\* whose output was populated at the start, and when all four outputs were
\* populated executes nothing and ends with the state it was given.
ResumesWhereOutputIsMissing ==
  (graph = "pipeline" /\ input.current_task = "pipeline") =>
    /\ first # "none" => first = FirstMissing(input)
    /\ "schema_agent" \in ran => IsEmpty(input.schema)
    /\ "quality_agent" \in ran => input.quality_report = {}
    /\ "ai_doc_agent" \in ran => input.documentation = {}
    /\ "export_agent" \in ran => input.artifacts = <<>>
    /\ AllPopulated(input) => (ran = {} /\ AgentState = input /\ pc \in {"__start__", "__end__"})

ResumedAtDocumentation ==
  /\ graph = "pipeline"
  /\ input.current_task = "pipeline"
  /\ ~IsEmpty(input.schema)
  /\ input.quality_report # {}
  /\ input.documentation = {}
  /\ first = "ai_doc_agent"
  /\ pc = "__end__"

\* C7 (as claimed): a run whose task is chat executes no stage agent and
\* leaves schema, quality_report, documentation and artifacts unchanged.
ChatRunBypassesStages ==
  input.current_task = "chat" =>
    (ran \cap Stages = {} /\ OutputsOf(AgentState) = OutputsOf(input))

\* C7 (amended): in the pipeline graph a run whose task is chat goes
\* straight to the chat agent, executes no stage agent and leaves the four
\* outputs unchanged; in the chat graph the outputs are unchanged as long as
\* the supervisor has not routed the run to a stage agent.
ChatTaskInPipelineGraphBypassesStages ==
  /\ (graph = "pipeline" /\ input.current_task = "chat") =>
       /\ pc \in {"__start__", "chat_agent", "__end__"}
       /\ ran \subseteq {"chat_agent"}
       /\ OutputsOf(AgentState) = OutputsOf(input)
  /\ (graph = "chat" /\ input.current_task = "chat" /\ ran \cap Stages = {}) =>
       OutputsOf(AgentState) = OutputsOf(input)

ChatAnsweredWithoutSchema ==
  /\ graph = "pipeline"
  /\ input.current_task = "chat"
  /\ IsEmpty(schema)
  /\ artifacts = <<>>
  /\ ran = {"chat_agent"}
  /\ pc = "__end__"

\* C8 (as claimed): when an extraction finishes and no cache file exists or
\* the cached snapshot's fingerprint differs, the cache file holds the fresh
\* schema at the end of the extraction stage.
CacheHoldsFreshAfterExtraction ==
  [][(/\ pc = "schema_agent"
      /\ extraction' = "ok"
      /\ \/ ~cache.exists
         \/ /\ json_loads(cache.text).ok
            /\ _schema_hash(json_loads(cache.text).value) # _schema_hash(fresh'))
       => cache' = [exists |-> TRUE, text |-> json_dumps(fresh', FALSE)]]_vars

\* C8 (amended): only the export stage changes the cache file, and after an
\* export whose cache write succeeded the file holds the run's schema.
CacheWrittenOnlyByExport ==
  /\ [](cache_write = "ok" =>
          (cache.exists /\ json_loads(cache.text) = [ok |-> TRUE, value |-> schema]))
  /\ [][cache' # cache => pc = "export_agent"]_vars

CacheHoldsExtractedSchemaAfterExport ==
  /\ graph = "pipeline"
  /\ extraction = "ok"
  /\ "export_agent" \in ran
  /\ cache_write = "ok"
  /\ schema = fresh
  /\ cache # cache0
  /\ json_loads(cache.text).value = fresh

\* C9: a successful extraction writes the cached schema object to
\* state.schema if a readable cache exists whose fingerprint equals the
\* fresh schema's, and the fresh schema in every other case.
CachedObjectSubstitutedOnMatch ==
  [][(pc = "schema_agent" /\ extraction' = "ok") =>
       schema' = IF /\ cache.exists
                    /\ json_loads(cache.text).ok
                    /\ _schema_hash(json_loads(cache.text).value) = _schema_hash(fresh')
                 THEN json_loads(cache.text).value
                 ELSE fresh']_vars

CachedObjectInState ==
  /\ extraction = "ok"
  /\ "export_agent" \notin ran
  /\ schema # fresh
  /\ _schema_hash(schema) = _schema_hash(fresh)
  /\ cache.exists
  /\ json_dumps(schema, FALSE) = cache.text

\* C10: two schema maps that differ only in key order, at either nesting
\* level, have the same fingerprint; a map with one column added to one
\* table has a different fingerprint.
FingerprintOrderInvariantContentSensitive ==
  /\ rel \in {"same", "permuted"} => _schema_hash(cur) = _schema_hash(orig)
  /\ rel = "added" => _schema_hash(cur) # _schema_hash(orig)

PermutedAtBothLevels ==
  /\ rel = "permuted"
  /\ cur.order # orig.order
  /\ \E k \in Range(cur.order) : cur.tab[k].order # orig.tab[k].order
  /\ _schema_hash(cur) = _schema_hash(orig)

\* ------------------------------------------------------------------------
\* Schema discovery
\* ------------------------------------------------------------------------
\* C11: in every table description returned by schema discovery, each name
\* in primary_keys is the name of a column in that table's columns list,
\* also when a metadata query of the table failed and degraded to empty
PrimaryKeysAreColumns ==
  (called = "get_schema" /\ response.ok) =>
    \A k \in Range(response.body.order) :
      \A pk \in Range(response.body.tab[k].primary_keys) :
        \E j \in 1..Len(response.body.tab[k].columns) :
          response.body.tab[k].columns[j].name = pk

\* C12: a failure on one table during the scan is recorded as an entry in
\* the errors of the result and does not abort the scan: every table whose
\* schema could be listed is in the resulting schema map.  (The schema map
\* of a successful answer has no errors entry; only the failure answer
\* carries a message.)
TableFailureRecordedScanContinues ==
  (called = "get_schema" /\ scan.kind # "none" /\ response.ok) =>
    /\ (\E p \in scan.faults : p.table # "") => response.error # ""
    /\ \A i \in 1..Len(Database) :
         Fault(Database[i].schema, "", "tables") \notin scan.faults =>
           full_name(Database[i].schema, Database[i].table_name) \in Range(response.body.order)

\* C13: an operation the embedded backend cannot express answers empty
\* instead of raising, and an operation that fails or is absent for a
\* table leaves the results of the other operations requested for that
\* table in the answer, unchanged
ConstraintOperationsIndependent ==
  (called = "get_constraints") =>
    LET r == [j \in 1..4 |->
                inspector(scan.kind, <<"pk", "unique", "check", "indexes">>[j],
                          Database[scan.table], scan.faults)]
    IN  /\ scan.kind = "duckdb" => \A j \in 1..4 : ~r[j].raised
        /\ \A j \in 1..4 :
             ~r[j].raised =>
               /\ response.ok
               /\ <<response.body.primary_key, response.body.unique_constraints,
                     response.body.check_constraints, response.body.indexes>>[j] = r[j].value

\* ------------------------------------------------------------------------
\* Engine construction
\* ------------------------------------------------------------------------
\* whether a URL addresses a client/server engine
IsServerURL(url) == url # <<>> /\ Head(url) # "duckdb:///"

\* the source a get_engine call selects: the caller's URL, else the
\* environment's, else none
SelectedURL(c) == IF c.url # <<>> THEN c.url ELSE DATABASE_URL

\* C14: the returned engine is the one for the caller's URL if there is
\* one, else the client/server engine for the configured server URL if
\* there is one, else the embedded engine at the well-known path; a
\* lower-priority source is never used when a higher one is supplied
EngineFollowsPriority ==
  \A i \in 1..Len(calls) :
    LET e == engines[calls[i].engine]
        url == SelectedURL(calls[i])
    IN  IF url = <<>> THEN e = DuckDBEngine(DUCKDB_PATH)
        ELSE IF IsServerURL(url) THEN e.backend = "sqlalchemy" /\ e.target = url
        ELSE e = DuckDBEngine(Tail(url))

\* C15: when the selected client/server engine is unreachable no engine is
\* returned: neither one that fails at its first query nor one of another
\* backend
UnreachableServerFailsFast ==
  \A i \in 1..Len(calls) :
    (IsServerURL(SelectedURL(calls[i])) /\ ~calls[i].up) => calls[i].engine = 0

\* C16: two get_engine calls that resolve to the same embedded file path
\* return the same engine instance, and calls that resolve to different
\* paths return different instances
EmbeddedEngineSingletonPerPath ==
  \A i, j \in 1..Len(calls) :
    (engines[calls[i].engine].backend = "duckdb" /\ engines[calls[j].engine].backend = "duckdb") =>
      (engines[calls[i].engine].target = engines[calls[j].engine].target
         <=> calls[i].engine = calls[j].engine)

\* ------------------------------------------------------------------------
\* The query surface
\* ------------------------------------------------------------------------
\* the text holds a destructive statement: its keyword in any case, then
\* blanks or tabs, then the rest of the statement
Destructive(sql) ==
  \E i \in 1..Len(sql), j \in 1..Len(sql) :
    /\ i + 1 < j
    /\ UpperPart(sql[i]) \in {"DROP", "ALTER", "DELETE", "INSERT", "UPDATE"}
    /\ \A k \in (i + 1)..(j - 1) : sql[k] \in Whitespace
    /\ sql[j] = "t"

\* C17: for an SQL text holding a DROP, ALTER, DELETE, INSERT or UPDATE
\* statement, in any position, case or whitespace layout, execute_query
\* answers an error and conn.execute is not called with the text
NoDestructiveStatementExecuted ==
  (query.surface # "none" /\ Destructive(query.sql)) =>
    (executed = <<>> /\ reply.error # "")

\* ------------------------------------------------------------------------
\* The quality tools
\* ------------------------------------------------------------------------
\* C18: for a list of two or more distinct columns the correlation matrix
\* has an entry for every ordered pair of columns, its diagonal entries
\* are exactly 1.0, and matrix[a][b] = matrix[b][a] for all columns a, b
CorrelationMatrixCompleteSymmetric ==
  (corr_result.ok /\ Cardinality(Range(corr_input.columns)) = Len(corr_input.columns)) =>
    LET mx == corr_result.correlation_matrix
        cols == Range(corr_input.columns)
    IN  /\ \A x \in cols, y \in cols : <<x, y>> \in DOMAIN mx
        /\ \A x \in cols : mx[<<x, x>>] = 10000
        /\ \A x \in cols, y \in cols : mx[<<x, y>>] = mx[<<y, x>>]

\* C19: the reported uniqueness_rate is the number of distinct key tuples
\* over the number of rows (to the four decimals reported), and it is 1.0
\* if and only if no two rows share a key tuple, for every table content,
\* the empty table and many rows with few duplicates included
UniquenessRateExact ==
  pk_result.ok =>
    /\ count_rows(pk_table) > 0 =>
         2 * Abs(pk_result.uniqueness_rate * count_rows(pk_table)
                   - 10000 * count_groups(pk_table)) <= count_rows(pk_table)
    /\ pk_result.uniqueness_rate = 10000 <=> (\A k \in 1..Len(PkTuples) : pk_table.copies[k] <= 1)

\* the chi-square statistic over all nine digits: a digit that does not
\* occur contributes its expected count
chi_square_nine_digits(counts) ==
  LET n == Sum(counts, 9)
  IN  [lo |-> Sum([d \in 1..9 |-> chi_term(counts, d, n).lo], 9),
       hi |-> Sum([d \in 1..9 |-> chi_term(counts, d, n).hi], 9)]

\* C20: the risk level is the band (low below 15.5, moderate below 20.1,
\* high otherwise) of the chi-square statistic over all nine leading
\* digits; so a non-empty column whose values all lead with 9 is rated
\* high and a column in the exact Benford shares is rated low
BenfordBandsOverNineDigits ==
  benford_result.ok =>
    /\ benford_result.risk_level \in risk_levels(chi_square_nine_digits(digit_counts))
    /\ (\A d \in 1..8 : digit_counts[d] = 0) => benford_result.risk_level = "high"
    /\ (\A d \in 1..9 : 1000 * digit_counts[d] = benford_expected[d] * Sum(digit_counts, 9))
         => benford_result.risk_level = "low"

\* C21: the reported overall_completeness of a table is 1 minus the mean of
\* the reported null rates (to the four decimals reported), lies in [0,1]
\* and is 1.0 when the table has no columns; each reported null rate lies
\* in [0,1].  A table the database can read is reported on.
CompletenessIsOneMinusMeanNullRate ==
  /\ (stat_input.tool = "compute_table_completeness" /\ stat_result # NoAnswer
        /\ stat_result.error # "query failed") =>
       /\ stat_result.ok
       /\ LET rates == stat_result.column_null_rates
              n == Len(rates)
          IN  /\ \A j \in 1..n : rates[j] \in 0..10000
              /\ stat_result.overall_completeness \in 0..10000
              /\ n = 0 => stat_result.overall_completeness = 10000
              /\ 2 * Abs(stat_result.overall_completeness * n - (10000 * n - Sum(rates, n))) <= n
  /\ (stat_input.tool = "get_quality" /\ stat_result # NoAnswer) =>
       \A k \in 1..Len(stat_result.quality) :
         LET rates == stat_result.quality[k].column_quality
             n == Len(rates)
             overall == stat_result.quality[k].overall_completeness
         IN  /\ \A j \in 1..n : rates[j] \in 0..10000
             /\ overall \in 0..10000
             /\ n = 0 => overall = 10000
             /\ 2 * Abs(overall * n - (10000 * n - Sum(rates, n))) <= n

\* C22: for a table with zero rows every column's null_rate is reported as
\* 0 and the table's overall_completeness is reported as 1.0
ZeroRowsReportedComplete ==
  /\ (stat_input.tool = "compute_table_completeness" /\ stat_result # NoAnswer
        /\ stat_result.error # "query failed" /\ stat_input.rows = 0) =>
       /\ stat_result.ok
       /\ \A j \in 1..Len(stat_result.column_null_rates) : stat_result.column_null_rates[j] = 0
       /\ stat_result.overall_completeness = 10000
  /\ (stat_input.tool = "analyze_column_nulls" /\ stat_result # NoAnswer
        /\ stat_result.error # "query failed"
        /\ stat_input.nulls + Len(stat_input.vals) = 0) =>
       (stat_result.ok /\ stat_result.null_rate = 0)

\* C23: z-score outlier detection on a column whose standard deviation is
\* zero or undefined (constant, single-valued, empty or all-null) answers
\* outlier_count 0 with the no-variance marker after the statistics query
\* alone; the outlier queries, which divide by the deviation, are issued
\* only for a column whose values differ, and a reported total_rows, by
\* which the percentage divides, is never 0
ZeroVarianceAnswersWithoutOutlierQuery ==
  (stat_input.tool = "detect_outliers_zscore" /\ stat_result # NoAnswer) =>
    /\ ((\A i, j \in 1..Len(stat_input.vals) : stat_input.vals[i] = stat_input.vals[j])
          /\ stat_result.error # "query failed") =>
         /\ stat_result.error = "Standard deviation is zero - no variation in data"
         /\ stat_result.outlier_count = 0
         /\ stat_result.queries = <<"stats">>
    /\ (\E k \in 1..Len(stat_result.queries) : stat_result.queries[k] # "stats") =>
         \E i, j \in 1..Len(stat_input.vals) : stat_input.vals[i] # stat_input.vals[j]
    /\ stat_result.ok => stat_result.total_rows # 0

\* a constant column of several values was answered with the no-variance
\* marker
ConstantColumnAnswered ==
  /\ stat_input.tool = "detect_outliers_zscore"
  /\ stat_result # NoAnswer
  /\ stat_result.error = "Standard deviation is zero - no variation in data"
  /\ Len(stat_input.vals) >= 2
  /\ stat_input.vals[1] = 10

\* C28: the total_rows a quality tool reports (analyze_column_nulls,
\* check_pk_uniqueness, detect_outliers_zscore, detect_outliers_iqr) is the
\* number of rows it counted in the table or column, zero rows included
TotalRowsIsRowsCounted ==
  /\ pk_result.ok => pk_result.total_rows = count_rows(pk_table)
  /\ (stat_input.tool = "analyze_column_nulls" /\ stat_result.ok) =>
       stat_result.total_rows = stat_input.nulls + Len(stat_input.vals)
  /\ (stat_input.tool \in {"detect_outliers_zscore", "detect_outliers_iqr"} /\ stat_result.ok) =>
       stat_result.total_rows = Len(stat_input.vals)

\* ------------------------------------------------------------------------
\* Runs of the two graphs, continued
\* ------------------------------------------------------------------------
\* C24: in every run of the pipeline graph the quality stage never executes
\* while schema is empty, the documentation stage never while schema or
\* quality_report is empty, the export stage never while schema,
\* quality_report or documentation is empty; so the "no schema" returns of
\* the quality and documentation agents are never taken
StagesRunOnPopulatedInputs ==
  graph = "pipeline" =>
    /\ pc = "quality_agent" => ~IsEmpty(schema)
    /\ pc = "ai_doc_agent" => (~IsEmpty(schema) /\ quality_report # {})
    /\ pc = "export_agent" =>
         (~IsEmpty(schema) /\ quality_report # {} /\ documentation # {})
    /\ "QualityAgent: no schema to analyze." \notin Range(errors)
    /\ "AIDocAgent: no schema to document." \notin Range(errors)

\* a pipeline run from the empty state went through all four stages
AllStagesRanInOrder ==
  /\ graph = "pipeline"
  /\ IsEmpty(input.schema)
  /\ Stages \subseteq ran
  /\ pc = "__end__"

\* C25: in every run of the pipeline graph an output that has become
\* non-empty is never changed or emptied again, and a stage writes no
\* output field but its own
OutputsWrittenOnce ==
  [][graph = "pipeline" =>
       /\ ~IsEmpty(schema) => schema' = schema
       /\ quality_report # {} => quality_report' = quality_report
       /\ documentation # {} => documentation' = documentation
       /\ artifacts # <<>> => artifacts' = artifacts
       /\ pc # "schema_agent" => schema' = schema
       /\ pc # "quality_agent" => quality_report' = quality_report
       /\ pc # "ai_doc_agent" => documentation' = documentation
       /\ pc # "export_agent" => artifacts' = artifacts]_vars

\* the schema written by the first stage is still there, unchanged, after
\* a later stage failed and the last stage ran
SchemaKeptThroughFailedStage ==
  /\ graph = "pipeline"
  /\ IsEmpty(input.schema)
  /\ extraction = "ok"
  /\ schema = fresh
  /\ "export_agent" \in ran
  /\ errors # <<>>
  /\ pc = "__end__"

\* C26: the schema a successful extraction writes to the state holds the
\* freshly extracted values: the same tables, and for each table the fresh
\* columns and the fresh row count, also when a cached snapshot of an
\* earlier run is substituted or differs in a row count only
FreshValuesInState ==
  extraction = "ok" =>
    /\ Range(schema.order) = Range(fresh.order)
    /\ \A k \in Range(fresh.order) :
         /\ schema.tab[k].columns = fresh.tab[k].columns
         /\ schema.tab[k].row_count = fresh.tab[k].row_count

\* the snapshot of the earlier run differs from the fresh schema in the row
\* counts only
RowCountChangedSinceSnapshot ==
  /\ extraction = "ok"
  /\ ~IsEmpty(fresh)
  /\ "export_agent" \notin ran
  /\ cache.exists
  /\ json_loads(cache.text).ok
  /\ LET cached == json_loads(cache.text).value
     IN  /\ Range(cached.order) = Range(fresh.order)
         /\ \A k \in Range(fresh.order) :
              /\ cached.tab[k].columns = fresh.tab[k].columns
              /\ cached.tab[k].row_count # fresh.tab[k].row_count
  /\ schema = fresh

TableKeysAgree ==
  /\ \A i, j \in 1..Len(Database) :
       (/\ i # j
        /\ full_name(Database[i].schema, Database[i].table_name) \in Range(pipeline_schema.order))
         => full_name(Database[i].schema, Database[i].table_name)
              # full_name(Database[j].schema, Database[j].table_name)
  /\ \A s \in Range(pipeline_schema.order), d \in Range(pipeline_documentation.order) :
       (/\ pipeline_schema.tab[s].schema = pipeline_documentation.tab[d].schema_name
        /\ pipeline_schema.tab[s].table_name = pipeline_documentation.tab[d].table_name)
         => s = d

\* ------------------------------------------------------------------------
\* The connection lifecycle of the embedded engine
\* ------------------------------------------------------------------------
\* C29: at most one underlying connection of the engine is open; the engine
\* holds the open one; dispose leaves none open, a connect made while one is
\* open reuses it and a connect made after dispose opens a new one; and no
\* Connection or Inspector object executes a query on a connection that
\* dispose has closed
EngineConnectionLifecycle ==
  /\ Cardinality((1..opened) \ closed) <= 1
  /\ (1..opened) \ closed = IF _conn = 0 THEN {} ELSE {_conn}
  /\ lifecycle_op.op = "dispose" => (_conn = 0 /\ closed = 1..opened)
  /\ lifecycle_op.op \in {"connect", "get_inspector"} =>
       (/\ _conn = lifecycle_op.conn
        /\ _conn \notin closed
        /\ handles[Len(handles)].conn = _conn)
  /\ lifecycle_op.op \in {"execute", "get_schema_names"} => ~lifecycle_op.was_closed

====
